---- MODULE Spec2Model ----
(***************************************************************************)
(* Gem Trust Platform: the register-user Lambda handler                    *)
(* (gem-trust-platform-api/src/handlers/register-user.js), its validator   *)
(* and the three external stores it drives (Cognito user pool, S3 bucket,  *)
(* DynamoDB table).                                                        *)
(*                                                                         *)
(* Strings are tuples of one-character strings so that the regular         *)
(* expressions and trim() of the source are computed, not assumed.         *)
(***************************************************************************)
EXTENDS Integers, Sequences, FiniteSets, TLC

\* ------------------------------------------------------------------------
\* Bounds
\* ------------------------------------------------------------------------

\* number of handler invocations the hosting platform starts
MaxInv == 2

\* values Date.now() may take while an upload builds its key
MaxTime == 1

\* the controller operations that can be pending at the same time, beside the
\* state check of the mount effect
MaxOps == 1

\* ------------------------------------------------------------------------
\* JavaScript values of a JSON body field
\* ------------------------------------------------------------------------

Undefined == [t |-> "undefined", s |-> <<>>]

Null == [t |-> "null", s |-> <<>>]

\* a non-zero JSON number (truthy, has no trim method)
Num == [t |-> "number", s |-> <<>>]

Str(s) == [t |-> "string", s |-> s]

\* JavaScript truthiness of a field value
Truthy(v) == v.t = "number" \/ (v.t = "string" /\ v.s # <<>>)

\* ------------------------------------------------------------------------
\* Character classes and the regular expressions of the validator
\* ------------------------------------------------------------------------

Digits == {"0", "1", "2", "3", "4", "5", "6", "7", "8", "9"}

\* \s
Whitespace == {" ", "\t", "\n"}

\* String.prototype.trim() === ''
TrimIsEmpty(s) == \A k \in 1..Len(s) : s[k] \in Whitespace

\* [^\s@]
NotSpaceAt(c) == c \notin Whitespace /\ c # "@"

\* /^[^\s@]+@[^\s@]+\.[^\s@]+$/
EmailRe(s) ==
    \E i \in 1..Len(s) : \E j \in 1..Len(s) :
        /\ 1 < i /\ i + 1 < j /\ j < Len(s)
        /\ s[i] = "@" /\ s[j] = "."
        /\ \A k \in 1..Len(s) : k \notin {i, j} => NotSpaceAt(s[k])

\* /^[0-9]{9}[vVxX]?$/
NicRe(s) ==
    /\ Len(s) \in {9, 10}
    /\ \A k \in 1..9 : s[k] \in Digits
    /\ Len(s) = 10 => s[10] \in {"v", "V", "x", "X"}

\* [\d\s\-\(\)]
MobileChar(c) == c \in Digits \cup Whitespace \cup {"-", "(", ")"}

\* /^\+?[\d\s\-\(\)]{10,}$/
MobileRe(s) ==
    \/ Len(s) >= 10 /\ \A k \in 1..Len(s) : MobileChar(s[k])
    \/ Len(s) >= 11 /\ s[1] = "+" /\ \A k \in 2..Len(s) : MobileChar(s[k])

\* ['Buyer', 'Seller']
Roles == { <<"B", "u", "y", "e", "r">>, <<"S", "e", "l", "l", "e", "r">> }

Buyer == <<"B", "u", "y", "e", "r">>

Seller == <<"S", "e", "l", "l", "e", "r">>

\* ------------------------------------------------------------------------
\* validateRegistrationData
\* ------------------------------------------------------------------------

\* const required = [...]
Required == <<"email", "password", "fullName", "mobileNumber", "nicNumber", "role">>

\* `${field} is required`
RequiredMsg ==
    [email |-> "email is required", password |-> "password is required",
     fullName |-> "fullName is required", mobileNumber |-> "mobileNumber is required",
     nicNumber |-> "nicNumber is required", role |-> "role is required"]

\* !data[field] || data[field].trim() === ''   (for a value that has trim)
IsBlank(v) == ~Truthy(v) \/ TrimIsEmpty(v.s)

\* data[field].trim is not a function: a truthy value that is no string
TrimThrows(v) == Truthy(v) /\ v.t # "string"

\* the candidate messages in the order the function pushes them
ValidationChecks(data) ==
    [k \in 1..6 |-> [hit |-> IsBlank(data[Required[k]]), msg |-> RequiredMsg[Required[k]]]]
    \o
    << [hit |-> Truthy(data.email) /\ ~EmailRe(data.email.s),
        msg |-> "Invalid email format"],
       [hit |-> Truthy(data.password) /\ Len(data.password.s) < 8,
        msg |-> "Password must be at least 8 characters long"],
       [hit |-> Truthy(data.role) /\ data.role.s \notin Roles,
        msg |-> "Role must be either Buyer or Seller"],
       [hit |-> Truthy(data.nicNumber) /\ ~NicRe(data.nicNumber.s),
        msg |-> "Invalid NIC number format"],
       [hit |-> Truthy(data.mobileNumber) /\ ~MobileRe(data.mobileNumber.s),
        msg |-> "Invalid mobile number format"] >>

HitIs(c) == c.hit

ErrorList(data) ==
    LET sel == SelectSeq(ValidationChecks(data), HitIs)
    IN  [k \in 1..Len(sel) |-> sel[k].msg]

\* a validator that stops at the first violated rule
validateFirstErrorOnly(data) ==
    IF \E k \in 1..6 : TrimThrows(data[Required[k]])
    THEN [threw |-> TRUE, isValid |-> FALSE, errors |-> <<>>]
    ELSE [threw |-> FALSE, isValid |-> Len(ErrorList(data)) = 0,
          errors |-> IF Len(ErrorList(data)) = 0 THEN <<>> ELSE <<ErrorList(data)[1]>>]

\* the validator: threw = TypeError out of required.forEach
validateRegistrationData(data) ==
    IF \E k \in 1..6 : TrimThrows(data[Required[k]])
    THEN [threw |-> TRUE, isValid |-> FALSE, errors |-> <<>>]
    ELSE [threw |-> FALSE, isValid |-> Len(ErrorList(data)) = 0, errors |-> ErrorList(data)]

\* ------------------------------------------------------------------------
\* State
\* ------------------------------------------------------------------------

VARIABLES
    inv,                \* invocation id -> the handler run: position, locals, calls made, response
    pool,               \* Cognito user pool: the identity records
    members,            \* Cognito group memberships
    bucket,             \* S3 bucket: the stored objects
    table,              \* DynamoDB users table: the items, one per userId
    uuidCount,          \* how many ids uuidv4() has handed out
    userSubInResponse,  \* whether the User object of adminCreateUser carries a UserSub field
    vIn,                \* function harness: the input under test
    vOut,               \* function harness: whether the function ran and what it returned
    user,               \* AuthProvider state: const [user, setUser]
    isLoading,          \* AuthProvider state: const [isLoading, setIsLoading]
    error,              \* AuthProvider state: const [error, setError]
    session,            \* Amplify/Cognito: the signed-in user of this browser, if any
    ops,                \* slot -> a call of a controller operation: its position and outcome
    mounted,            \* whether the mount effect of AuthProvider has run
    signUpForm,         \* SignUpForm: its state, the submission under way and what it did
    forgotForm          \* ForgotPasswordForm: its state, the calls under way and what they did

\* the variables of the session controller and its identity provider
authVars == <<user, isLoading, error, session, ops, mounted>>

\* the variables of the handler, its stores and the function harness
handlerVars == <<inv, pool, members, bucket, table, uuidCount, userSubInResponse, vIn, vOut>>

\* the variables of the forms
formVars == <<signUpForm, forgotForm>>

vars == <<inv, pool, members, bucket, table, uuidCount, userSubInResponse, vIn, vOut,
          user, isLoading, error, session, ops, mounted, signUpForm, forgotForm>>

Invocations == 1..MaxInv

\* ------------------------------------------------------------------------
\* Environment variables and fixed tables of the handler
\* ------------------------------------------------------------------------

BUYER_GROUP == "Buyers"

SELLER_GROUP == "Sellers"

S3_BUCKET == "documents"

\* codes a failing collaborator call may carry
ErrorCodes ==
    {"UsernameExistsException", "InvalidPasswordException",
     "InvalidParameterException", "InternalErrorException"}

HexDigits == <<"1", "2", "3", "4", "5", "6", "7", "8", "9", "a", "b", "c">>

\* an id generator that hands out the same id every time
uuidv4Constant(n) == <<"f", "-", HexDigits[1]>>

\* uuidv4(): the n-th call returns a value no earlier call returned
uuidv4(n) == <<"f", "-", HexDigits[n + 1]>>

\* the sub attribute Cognito assigns to the n-th identity record
SubOf(n) == <<"5", "-", HexDigits[n + 1]>>

\* getFileExtension
getFileExtension(contentType) ==
    CASE contentType = <<"image/jpeg">> -> "jpg"
      [] contentType = <<"image/jpg">>  -> "jpg"
      [] contentType = <<"image/png">>  -> "png"
      [] contentType = <<"image/gif">>  -> "gif"
      [] contentType = <<"image/webp">> -> "webp"
      [] OTHER -> "jpg"

DataUrlPrefixes == {"data:image/png;base64,", "data:image/jpeg;base64,"}

\* base64Data.replace(/^data:image\/[a-z]+;base64,/, '')
StripDataUrl(s) == IF Len(s) > 0 /\ s[1] \in DataUrlPrefixes THEN Tail(s) ELSE s

\* createResponse without the CORS origin header
createResponseNoOrigin(statusCode, body) ==
    [statusCode |-> statusCode,
     headers |-> [ContentType |-> "application/json",
                  AccessControlAllowOrigin |-> "",
                  AccessControlAllowHeaders |->
                      "Content-Type,X-Amz-Date,Authorization,X-Api-Key,X-Amz-Security-Token",
                  AccessControlAllowMethods |-> "POST,OPTIONS"],
     body |-> body]

\* createResponse
createResponse(statusCode, body) ==
    [statusCode |-> statusCode,
     headers |-> [ContentType |-> "application/json",
                  AccessControlAllowOrigin |-> "*",
                  AccessControlAllowHeaders |->
                      "Content-Type,X-Amz-Date,Authorization,X-Api-Key,X-Amz-Security-Token",
                  AccessControlAllowMethods |-> "POST,OPTIONS"],
     body |-> body]

\* ErrorResponse without the InvalidPasswordException branch
ErrorResponseNoPasswordBranch(code) ==
    CASE code = "UsernameExistsException" ->
            createResponse(409, [error |-> "User already exists",
                                 message |-> "An account with this email already exists"])
      [] code = "InvalidParameterException" ->
            createResponse(400, [error |-> "Invalid parameters",
                                 message |-> "Please check your input data"])
      [] OTHER ->
            createResponse(500, [error |-> "Internal server error",
                                 message |-> "Failed to register user"])

\* ErrorResponse without the UsernameExistsException branch
ErrorResponseNoConflictBranch(code) ==
    CASE code = "InvalidPasswordException" ->
            createResponse(400, [error |-> "Invalid password",
                                 message |-> "Password does not meet requirements"])
      [] code = "InvalidParameterException" ->
            createResponse(400, [error |-> "Invalid parameters",
                                 message |-> "Please check your input data"])
      [] OTHER ->
            createResponse(500, [error |-> "Internal server error",
                                 message |-> "Failed to register user"])

\* the catch block: the response for a caught error, by its code
ErrorResponse(code) ==
    CASE code = "UsernameExistsException" ->
            createResponse(409, [error |-> "User already exists",
                                 message |-> "An account with this email already exists"])
      [] code = "InvalidPasswordException" ->
            createResponse(400, [error |-> "Invalid password",
                                 message |-> "Password does not meet requirements"])
      [] code = "InvalidParameterException" ->
            createResponse(400, [error |-> "Invalid parameters",
                                 message |-> "Please check your input data"])
      [] OTHER ->
            createResponse(500, [error |-> "Internal server error",
                                 message |-> "Failed to register user"])

\* the 400 returned when validation fails
ValidationResponse(validation) ==
    createResponse(400, [error |-> "Validation failed", details |-> validation.errors])

\* SuccessResponse answering with the email in place of the generated id
SuccessResponseEmailAsId(userId, email, role) ==
    createResponse(201, [message |-> "User registered successfully",
                         userId |-> email.s, email |-> email, role |-> role,
                         requiresConfirmation |-> TRUE])

\* the 201 returned after the last step
SuccessResponse(userId, email, role) ==
    createResponse(201, [message |-> "User registered successfully",
                         userId |-> userId, email |-> email, role |-> role,
                         requiresConfirmation |-> TRUE])

\* ValidationGate that never returns early
ValidationGateOff(validation) == FALSE

\* if (!validation.isValid) return ...
ValidationGate(validation) == ~validation.isValid

\* GroupFor with the two branches exchanged
GroupForSwapped(role) == IF role = Str(Buyer) THEN SELLER_GROUP ELSE BUYER_GROUP

\* addUserToGroup: role === 'Buyer' ? BUYER_GROUP : SELLER_GROUP
GroupFor(role) == IF role = Str(Buyer) THEN BUYER_GROUP ELSE SELLER_GROUP

\* if (nicPhotoBase64 && nicPhotoContentType)
HasPhoto(data) == Truthy(data.nicPhotoBase64) /\ Truthy(data.nicPhotoContentType)

\* ------------------------------------------------------------------------
\* Event bodies
\* ------------------------------------------------------------------------

NoFields ==
    [email |-> Undefined, password |-> Undefined, fullName |-> Undefined,
     mobileNumber |-> Undefined, nicNumber |-> Undefined, role |-> Undefined,
     nicPhotoBase64 |-> Undefined, nicPhotoContentType |-> Undefined]

\* JSON.parse(event.body || '{}') followed by the destructuring of lines 41-50
ParseBody(b) ==
    CASE b.kind = "absent"    -> [threw |-> FALSE, code |-> "none", data |-> NoFields]
      [] b.kind = "malformed" -> [threw |-> TRUE, code |-> "SyntaxError", data |-> NoFields]
      [] b.kind = "null"      -> [threw |-> TRUE, code |-> "TypeError", data |-> NoFields]
      [] OTHER                -> [threw |-> FALSE, code |-> "none", data |-> b.f]

EmailA == <<"a", "@", "b", ".", "c", "o", "m">>

EmailB == <<"c", "@", "d", ".", "l", "k">>

GoodPassword == <<"A", "a", "1", "!", "a", "a", "a", "a">>

GoodName == <<"A", " ", "B">>

GoodMobile == <<"+", "1", "4", "1", "5", "5", "5", "5", "0", "1", "0", "0">>

GoodNic == <<"1", "2", "3", "4", "5", "6", "7", "8", "9", "V">>

ShortNic == <<"1", "2", "3", "4", "5">>

GoodFields(email, role) ==
    [email |-> Str(email), password |-> Str(GoodPassword), fullName |-> Str(GoodName),
     mobileNumber |-> Str(GoodMobile), nicNumber |-> Str(GoodNic), role |-> Str(role),
     nicPhotoBase64 |-> Undefined, nicPhotoContentType |-> Undefined]

WithPhoto(f) ==
    [f EXCEPT !.nicPhotoBase64 = Str(<<"data:image/png;base64,", "i", "V", "B">>),
              !.nicPhotoContentType = Str(<<"image/png">>)]

Object(f) == [kind |-> "object", f |-> f]

\* the event bodies the platform delivers
Bodies ==
    { Object(GoodFields(EmailA, Buyer)),
      Object(WithPhoto(GoodFields(EmailB, Seller))),
      Object([GoodFields(EmailA, Buyer) EXCEPT !.nicNumber = Str(ShortNic)]),
      Object([GoodFields(EmailB, Seller) EXCEPT !.email = Num]),
      [kind |-> "malformed", f |-> NoFields],
      [kind |-> "null", f |-> NoFields],
      [kind |-> "absent", f |-> NoFields] }

\* ------------------------------------------------------------------------
\* One run of exports.handler
\* ------------------------------------------------------------------------

NoKey == [userId |-> <<>>, ts |-> 0, ext |-> ""]

\* let nicPhotoUrl = null
NullLocator == [isNull |-> TRUE, Bucket |-> "", Key |-> NoKey]

\* a locator that does not name the key uploaded
LocatorWithoutKey(key) == [isNull |-> FALSE, Bucket |-> S3_BUCKET, Key |-> NoKey]

\* `s3://${S3_BUCKET}/${key}`
Locator(key) == [isNull |-> FALSE, Bucket |-> S3_BUCKET, Key |-> key]

\* `nic-photos/${userId}/${Date.now()}.${getFileExtension(contentType)}`
PhotoKey(userId, ts, contentType) ==
    [userId |-> userId, ts |-> ts, ext |-> getFileExtension(contentType)]

NoUser == [Username |-> <<>>, UserSub |-> Undefined]

NoResponse == createResponse(0, [error |-> "none"])

IdleRun ==
    [pc |-> "idle", body |-> [kind |-> "absent", f |-> NoFields], data |-> NoFields,
     userId |-> <<>>, result |-> NoUser, cognitoUser |-> NoUser,
     nicPhotoUrl |-> NullLocator, calls |-> <<>>, response |-> NoResponse,
     caught |-> "none", sawExisting |-> FALSE]

\* a collaborator call appended to the run's record of calls
Called(r, op, ok, arg) == Append(r.calls, [op |-> op, ok |-> ok, arg |-> arg])

\* Catch with the create-identity error swallowed: the run goes on to the profile put
CatchAndContinue(r, code) ==
    IF r.pc = "createUser"
    THEN [r EXCEPT !.pc = "put", !.caught = code]
    ELSE [r EXCEPT !.pc = "done", !.response = ErrorResponse(code), !.caught = code]

\* Catch that starts the steps over after a failed set-password call
CatchAndRetry(r, code) ==
    IF r.pc = "setPassword" /\ Len(r.calls) < 3
    THEN [r EXCEPT !.pc = "createUser", !.caught = code]
    ELSE [r EXCEPT !.pc = "done", !.response = ErrorResponse(code), !.caught = code]

\* an error thrown inside the try block reaches the catch block, which returns
Catch(r, code) ==
    [r EXCEPT !.pc = "done", !.response = ErrorResponse(code), !.caught = code]

\* the outcomes of a collaborator call: "ok" or the code of the error it raises
Outcomes == ErrorCodes \cup {"ok"}

\* lines 36-62: log, parse, validate, generate the userId; runs are numbered in
\* the order the platform starts them
Invoke(i, b) ==
    /\ inv[i].pc = "idle"
    /\ \A j \in Invocations : j < i => inv[j].pc # "idle"
    /\ LET p  == ParseBody(b)
           v  == validateRegistrationData(p.data)
           r0 == [inv[i] EXCEPT !.body = b]
       IN  IF p.threw
           THEN /\ inv' = [inv EXCEPT ![i] = Catch(r0, p.code)]
                /\ UNCHANGED uuidCount
           ELSE IF v.threw
           THEN /\ inv' = [inv EXCEPT ![i] = Catch(r0, "TypeError")]
                /\ UNCHANGED uuidCount
           ELSE IF ValidationGate(v)
           THEN /\ inv' = [inv EXCEPT ![i] =
                              [r0 EXCEPT !.pc = "done", !.response = ValidationResponse(v)]]
                /\ UNCHANGED uuidCount
           ELSE /\ inv' = [inv EXCEPT ![i] =
                              [r0 EXCEPT !.pc = "createUser", !.data = p.data,
                                         !.userId = uuidv4(uuidCount)]]
                /\ uuidCount' = uuidCount + 1
    /\ UNCHANGED <<pool, members, bucket, table, userSubInResponse, vIn, vOut, authVars, formVars>>

\* NewIdentity with the password already permanent at creation
NewIdentityConfirmed(userData, n) ==
    [Username |-> userData.email.s,
     sub |-> SubOf(n),
     UserStatus |-> "CONFIRMED",
     email |-> userData.email, name |-> userData.fullName,
     phone_number |-> userData.mobileNumber, nic_number |-> userData.nicNumber,
     role |-> userData.role, email_verified |-> "false"]

\* NewIdentity filed under the generated sub instead of the email
NewIdentityUnderSub(userData, n) ==
    [Username |-> SubOf(n),
     sub |-> SubOf(n),
     UserStatus |-> "FORCE_CHANGE_PASSWORD",
     email |-> userData.email, name |-> userData.fullName,
     phone_number |-> userData.mobileNumber, nic_number |-> userData.nicNumber,
     role |-> userData.role, email_verified |-> "false"]

\* the identity record adminCreateUser stores for params (lines 191-222)
NewIdentity(userData, n) ==
    [Username |-> userData.email.s,
     sub |-> SubOf(n),
     UserStatus |-> "FORCE_CHANGE_PASSWORD",
     email |-> userData.email, name |-> userData.fullName,
     phone_number |-> userData.mobileNumber, nic_number |-> userData.nicNumber,
     role |-> userData.role, email_verified |-> "false"]

\* createCognitoUser, first call: cognito.adminCreateUser(params).promise()
AdminCreateUser(i, outcome) ==
    /\ inv[i].pc = "createUser"
    /\ LET r      == inv[i]
           exists == \E u \in pool : u.Username = r.data.email.s
           id     == NewIdentity(r.data, Cardinality(pool))
           seen   == [r EXCEPT !.sawExisting = exists]
       IN  /\ exists => outcome # "ok"
           /\ IF outcome = "ok"
              THEN /\ pool' = pool \cup {id}
                   /\ inv' = [inv EXCEPT ![i] =
                         [seen EXCEPT !.pc = "setPassword",
                                      !.calls = Called(r, "adminCreateUser", TRUE, r.data.email),
                                      !.result = [Username |-> id.Username,
                                                  UserSub |-> IF userSubInResponse
                                                              THEN Str(id.sub) ELSE Undefined]]]
              ELSE /\ pool' = pool
                   /\ inv' = [inv EXCEPT ![i] =
                         Catch([seen EXCEPT !.calls =
                                   Called(r, "adminCreateUser", FALSE, r.data.email)], outcome)]
    /\ UNCHANGED <<members, bucket, table, uuidCount, userSubInResponse, vIn, vOut, authVars, formVars>>

\* createCognitoUser, second call: cognito.adminSetUserPassword(...).promise(),
\* then return result.User and the test of line 76
AdminSetUserPassword(i, outcome) ==
    /\ inv[i].pc = "setPassword"
    /\ LET r == inv[i]
           c == Called(r, "adminSetUserPassword", outcome = "ok", r.data.email)
       IN  IF outcome = "ok"
           THEN /\ pool' = { IF u.Username = r.data.email.s
                             THEN [u EXCEPT !.UserStatus = "CONFIRMED"] ELSE u : u \in pool }
                /\ inv' = [inv EXCEPT ![i] =
                      LET got == [r EXCEPT !.calls = c, !.cognitoUser = r.result]
                      IN  IF ~HasPhoto(r.data) THEN [got EXCEPT !.pc = "put"]
                          ELSE IF r.data.nicPhotoBase64.t # "string" THEN Catch(got, "TypeError")
                          ELSE [got EXCEPT !.pc = "upload"]]
           ELSE /\ pool' = pool
                /\ inv' = [inv EXCEPT ![i] = Catch([r EXCEPT !.calls = c], outcome)]
    /\ UNCHANGED <<members, bucket, table, uuidCount, userSubInResponse, vIn, vOut, authVars, formVars>>

\* uploadNicPhoto: s3.upload(params).promise()
S3Upload(i, outcome, ts) ==
    /\ inv[i].pc = "upload"
    /\ LET r   == inv[i]
           key == PhotoKey(r.userId, ts, r.data.nicPhotoContentType.s)
           obj == [Key |-> key, Body |-> StripDataUrl(r.data.nicPhotoBase64.s),
                   ContentType |-> r.data.nicPhotoContentType.s, ACL |-> "private"]
           c   == Called(r, "s3.upload", outcome = "ok", Str(r.userId))
       IN  IF outcome = "ok"
           THEN /\ bucket' = {o \in bucket : o.Key # key} \cup {obj}
                /\ inv' = [inv EXCEPT ![i] =
                      [r EXCEPT !.calls = c, !.nicPhotoUrl = Locator(key), !.pc = "put"]]
           ELSE /\ bucket' = bucket
                /\ inv' = [inv EXCEPT ![i] = Catch([r EXCEPT !.calls = c], outcome)]
    /\ UNCHANGED <<pool, members, table, uuidCount, userSubInResponse, vIn, vOut, authVars, formVars>>

\* the Item of storeUserInDynamoDB for the userData built at lines 81-92; the
\* wall-clock attributes createdAt, updatedAt and GSI1SK are left out of the
\* item, no operation of the handler reads them back
ProfileItem(r) ==
    [userId |-> r.userId, email |-> r.data.email, fullName |-> r.data.fullName,
     mobileNumber |-> r.data.mobileNumber, nicNumber |-> r.data.nicNumber,
     role |-> r.data.role, nicPhotoUrl |-> r.nicPhotoUrl,
     cognitoSub |-> r.cognitoUser.UserSub, isActive |-> TRUE,
     GSI1PK |-> <<"USER#", r.data.role.s>>,
     GSI2PK |-> <<"EMAIL#", r.data.email.s>>, GSI2SK |-> r.userId]

\* storeUserInDynamoDB: dynamodb.put(params).promise()
DynamoPut(i, outcome) ==
    /\ inv[i].pc = "put"
    /\ LET r    == inv[i]
           item == ProfileItem(r)
           c    == Called(r, "dynamodb.put", outcome = "ok", Str(r.userId))
       IN  IF outcome = "ok"
           THEN /\ table' = {it \in table : it.userId # item.userId} \cup {item}
                /\ inv' = [inv EXCEPT ![i] = [r EXCEPT !.calls = c, !.pc = "addGroup"]]
           ELSE /\ table' = table
                /\ inv' = [inv EXCEPT ![i] = Catch([r EXCEPT !.calls = c], outcome)]
    /\ UNCHANGED <<pool, members, bucket, uuidCount, userSubInResponse, vIn, vOut, authVars, formVars>>

\* the identity records a Username parameter resolves to: the username or the sub
Resolve(username) ==
    { u \in pool : Truthy(username) /\ (u.Username = username.s \/ u.sub = username.s) }

\* addUserToGroup: cognito.adminAddUserToGroup(params).promise(), then the 201;
\* the Username parameter is cognitoUser.UserSub, whatever the create response
\* carried under that name
AdminAddUserToGroup(i, outcome) ==
    /\ inv[i].pc = "addGroup"
    /\ LET r        == inv[i]
           username == r.cognitoUser.UserSub
           group    == GroupFor(r.data.role)
           arg      == [Username |-> username, GroupName |-> group]
       IN  IF ~Truthy(username)
           THEN \* the SDK rejects params without the required key Username
                /\ outcome = "InternalErrorException"
                /\ members' = members
                /\ inv' = [inv EXCEPT ![i] =
                      Catch([r EXCEPT !.calls = Called(r, "adminAddUserToGroup", FALSE, arg)],
                            "MissingRequiredParameter")]
           ELSE IF Resolve(username) = {}
           THEN /\ outcome = "InternalErrorException"
                /\ members' = members
                /\ inv' = [inv EXCEPT ![i] =
                      Catch([r EXCEPT !.calls = Called(r, "adminAddUserToGroup", FALSE, arg)],
                            "UserNotFoundException")]
           ELSE IF outcome = "ok"
           THEN /\ members' = members \cup
                       { [Username |-> u.Username, GroupName |-> group] : u \in Resolve(username) }
                /\ inv' = [inv EXCEPT ![i] =
                      [r EXCEPT !.calls = Called(r, "adminAddUserToGroup", TRUE, arg),
                                !.pc = "done",
                                !.response = SuccessResponse(r.userId, r.data.email, r.data.role)]]
           ELSE /\ members' = members
                /\ inv' = [inv EXCEPT ![i] =
                      Catch([r EXCEPT !.calls = Called(r, "adminAddUserToGroup", FALSE, arg)],
                            outcome)]
    /\ UNCHANGED <<pool, bucket, table, uuidCount, userSubInResponse, vIn, vOut, authVars, formVars>>

\* ------------------------------------------------------------------------
\* Session controller (AuthProvider): state and tables
\* ------------------------------------------------------------------------

\* the accounts of the user pool that can sign in from this browser
Users == {"alice", "bob"}

\* the JavaScript null of id and error
NoValue == "null"

\* no signed-in user
NoSession == "none"

\* const defaultUser; the attribute fields (email, name, phoneNumber, nicNumber,
\* role) are left out: they are null here and copied from the provider's
\* answer in checkAuthState, and nothing in the controller reads them
defaultUser == [id |-> NoValue, isAuthenticated |-> FALSE, isLoading |-> TRUE]

\* an anonymous user that keeps the isLoading of defaultUser
AnonymousUserStillLoading == defaultUser

\* { ...defaultUser, isLoading: false }
AnonymousUser == [defaultUser EXCEPT !.isLoading = FALSE]

\* const userData = { id: currentUser.username, ..., isAuthenticated: true, isLoading: false }
UserData(username) == [id |-> username, isAuthenticated |-> TRUE, isLoading |-> FALSE]

\* a provider call that resolved
Ok == [code |-> "ok", message |-> ""]

\* Auth.signIn resolving with challengeName NEW_PASSWORD_REQUIRED
Challenge == [code |-> "challenge", message |-> "NEW_PASSWORD_REQUIRED"]

\* what a provider call rejects with: a coded error of the lookup table, or a
\* rejection without code and message (Amplify rejects some calls with a bare
\* string); "" is an absent field
AuthErrors ==
    { [code |-> "NotAuthorizedException", message |-> "Incorrect username or password."],
      [code |-> "", message |-> ""] }

\* the answers of a provider call
AuthAnswers == {Ok} \cup AuthErrors

\* the switch of getErrorMessage
ErrorMessages ==
    [UserNotFoundException |-> "User not found. Please check your email address.",
     NotAuthorizedException |-> "Incorrect password. Please try again.",
     UserNotConfirmedException |-> "Please confirm your email address before signing in.",
     UsernameExistsException |-> "An account with this email already exists.",
     InvalidPasswordException |-> "Password does not meet requirements.",
     InvalidParameterException |-> "Invalid input. Please check your information.",
     CodeMismatchException |-> "Invalid verification code. Please try again.",
     ExpiredCodeException |-> "Verification code has expired. Please request a new one.",
     LimitExceededException |-> "Too many attempts. Please try again later."]

\* getErrorMessage without the fallback sentence
getErrorMessageNoFallback(err) ==
    IF err.code # "" /\ err.code \in DOMAIN ErrorMessages
    THEN ErrorMessages[err.code]
    ELSE err.message

\* getErrorMessage that prefers the raw message of the provider when there is one
getErrorMessageRawFirst(err) ==
    IF err.message # "" THEN err.message
    ELSE IF err.code # "" /\ err.code \in DOMAIN ErrorMessages
    THEN ErrorMessages[err.code]
    ELSE "An unexpected error occurred."

\* getErrorMessage
getErrorMessage(err) ==
    IF err.code # "" /\ err.code \in DOMAIN ErrorMessages
    THEN ErrorMessages[err.code]
    ELSE IF err.message # "" THEN err.message ELSE "An unexpected error occurred."

\* throw new Error('Password change required. Please contact support.')
PasswordChangeRequired ==
    [code |-> "", message |-> "Password change required. Please contact support."]

\* the operations the controller exposes
Kinds ==
    {"signIn", "signUp", "signOut", "confirmSignUp", "resendConfirmationCode",
     "forgotPassword", "resetPassword", "updateUserProfile"}

\* the operations that wrap their call in setIsLoading(true) ... finally setIsLoading(false)
LoadingKinds == {"signIn", "signUp", "confirmSignUp", "updateUserProfile"}

\* slot 0 is the state check of the mount effect, the others are calls by the pages
Slots == 0..MaxOps

NoOutcome == [resolved |-> FALSE, success |-> FALSE, error |-> ""]

\* return { success: true, ... }
Success == [resolved |-> TRUE, success |-> TRUE, error |-> ""]

\* return { success: false, error: errorMessage }
Failure(errorMessage) == [resolved |-> TRUE, success |-> FALSE, error |-> errorMessage]

\* a slot no call occupies; checked records what the state check run by the
\* call found ("none": the call has completed no state check)
IdleOp ==
    [kind |-> "none", pc |-> "idle", who |-> NoSession,
     currentUser |-> NoSession, outcome |-> NoOutcome, checked |-> "none"]

\* the state of a freshly constructed AuthProvider, before its mount effect
AuthNotMounted ==
    /\ user = defaultUser
    /\ isLoading = TRUE
    /\ error = NoValue
    /\ session = NoSession
    /\ ops = [k \in Slots |-> IdleOp]
    /\ mounted = FALSE

\* ------------------------------------------------------------------------
\* Sign-up form (SignUpForm): state and tables
\* ------------------------------------------------------------------------

\* /(?=.*[a-z])(?=.*[A-Z])(?=.*\d)(?=.*[@$!%*?&])[A-Za-z\d@$!%*?&]/ : not anchored, so
\* it asks for a position holding a character of the class with a lower-case letter,
\* an upper-case letter, a digit and a special character at or after it
PasswordRe(s) ==
    LET Lower == {"a", "b", "c", "d", "e", "f", "g", "h", "i", "j", "k", "l", "m",
                  "n", "o", "p", "q", "r", "s", "t", "u", "v", "w", "x", "y", "z"}
        Upper == {"A", "B", "C", "D", "E", "F", "G", "H", "I", "J", "K", "L", "M",
                  "N", "O", "P", "Q", "R", "S", "T", "U", "V", "W", "X", "Y", "Z"}
        Special == {"@", "$", "!", "%", "*", "?", "&"}
    IN  \E p \in 1..Len(s) :
            /\ s[p] \in Lower \cup Upper \cup Digits \cup Special
            /\ \E q \in p..Len(s) : s[q] \in Lower
            /\ \E q \in p..Len(s) : s[q] \in Upper
            /\ \E q \in p..Len(s) : s[q] \in Digits
            /\ \E q \in p..Len(s) : s[q] \in Special

NoFile == [present |-> FALSE, size |-> 0, type |-> "", content |-> <<>>]

File(size, type, content) == [present |-> TRUE, size |-> size, type |-> type, content |-> content]

PngFile == File(3, "image/png", <<"i", "V", "B">>)

EmptyPngFile == File(0, "image/png", <<>>)

PdfFile == File(3, "application/pdf", <<"J", "V", "B">>)

LargeFile == File(5 * 1024 * 1024 + 1, "image/jpeg", <<"9", "j", "4">>)

\* const [formData, setFormData] = useState({ email: '', ..., role: '', nicPhoto: null })
EmptyFormData ==
    [email |-> <<>>, password |-> <<>>, confirmPassword |-> <<>>, fullName |-> <<>>,
     mobileNumber |-> <<>>, nicNumber |-> <<>>, role |-> <<>>, nicPhoto |-> NoFile]

TwoSpaces == <<" ", " ">>

WeakPassword == <<"a", "a", "a", "a", "a", "a", "a", "a">>

\* what the user can put into each input; the role comes from the <select> options
FormValues ==
    [email           |-> {<<>>, EmailA},
     password        |-> {<<>>, GoodPassword, WeakPassword},
     confirmPassword |-> {<<>>, GoodPassword},
     fullName        |-> {<<>>, TwoSpaces, GoodName},
     mobileNumber    |-> {<<>>, GoodMobile},
     nicNumber       |-> {ShortNic, GoodNic},
     role            |-> {<<>>, Buyer, Seller},
     nicPhoto        |-> {NoFile, PngFile, EmptyPngFile, PdfFile, LargeFile}]

\* the keys of newErrors that validateForm fills; the last test is
\* !formData.nicPhoto.type.startsWith('image/')
FormErrors(formData) ==
    {f \in DOMAIN EmptyFormData :
        CASE f = "email" ->
                 formData.email = <<>> \/ ~EmailRe(formData.email)
          [] f = "password" ->
                 \/ formData.password = <<>>
                 \/ Len(formData.password) < 8
                 \/ ~PasswordRe(formData.password)
          [] f = "confirmPassword" ->
                 \/ formData.confirmPassword = <<>>
                 \/ formData.password # formData.confirmPassword
          [] f = "fullName" ->
                 formData.fullName = <<>> \/ Len(formData.fullName) < 2
          [] f = "mobileNumber" ->
                 formData.mobileNumber = <<>> \/ ~MobileRe(formData.mobileNumber)
          [] f = "nicNumber" ->
                 formData.nicNumber = <<>> \/ ~NicRe(formData.nicNumber)
          [] f = "role" ->
                 formData.role = <<>>
          [] f = "nicPhoto" ->
                 \/ ~formData.nicPhoto.present
                 \/ formData.nicPhoto.size > 5 * 1024 * 1024
                 \/ formData.nicPhoto.type \notin {"image/png", "image/jpeg"}}

\* return Object.keys(newErrors).length === 0
validateForm(formData) == FormErrors(formData) = {}

\* reader.readAsDataURL(file), then result.replace(/^data:[^;]+;base64,/, '')
fileToBase64(file) ==
    LET result == IF file.type = "image/png"
                  THEN <<"data:image/png;base64,">> \o file.content
                  ELSE <<"data:image/jpeg;base64,">> \o file.content
    IN  IF result[1] \in {"data:image/png;base64,", "data:image/jpeg;base64,"}
        THEN Tail(result)
        ELSE result

\* the object handed to registerUser: nicPhotoBase64 || undefined, and the content
\* type only when a photo was read
Payload(formData, nicPhotoBase64, nicPhotoContentType) ==
    [email |-> Str(formData.email), password |-> Str(formData.password),
     fullName |-> Str(formData.fullName), mobileNumber |-> Str(formData.mobileNumber),
     nicNumber |-> Str(formData.nicNumber), role |-> Str(formData.role),
     nicPhotoBase64 |-> IF nicPhotoBase64 = <<>> THEN Undefined ELSE Str(nicPhotoBase64),
     nicPhotoContentType |-> nicPhotoContentType]

\* process.env.NEXT_PUBLIC_API_GATEWAY_URL || ''
ApiBaseUrls == {"", "https://api.example.com/"}

NoRequest == [sent |-> FALSE, url |-> "", payload |-> NoFields]

\* `${API_BASE_URL.replace(/\/$/, '')}/register`
RegisterUrl(base) ==
    IF base = "https://api.example.com/" THEN "https://api.example.com/register" ELSE "/register"

\* the answers to the POST: a response with response.ok, a response without it, or a
\* rejected fetch
FetchAnswers == {"ok", "notOk", "rejected"}

\* data?.message of the body of a failed response; "" when the body has no message
\* or is not JSON
JsonMessages == {"Validation failed", ""}

NoErrors == [fields |-> {}, general |-> ""]

\* the page stays on /auth
NotNavigated == [path |-> "/auth", email |-> <<>>]

\* '/auth/confirm?email=' + encodeURIComponent(formData.email)
ConfirmRoute(email) == [path |-> "/auth/confirm", email |-> email]

SignUpFormAt(base) ==
    [apiBaseUrl |-> base, formData |-> EmptyFormData, errors |-> NoErrors,
     isSubmitting |-> FALSE, pc |-> "idle", submitted |-> EmptyFormData,
     nicPhotoBase64 |-> <<>>, request |-> NoRequest, response |-> "none",
     logged |-> FALSE, route |-> NotNavigated]

\* ------------------------------------------------------------------------
\* Forgot-password form (ForgotPasswordForm): state and tables
\* ------------------------------------------------------------------------

Code == <<"1", "2", "3", "4", "5", "6">>

ShortPassword == <<"A", "a", "1", "!">>

\* what the user can type into the inputs of the form
ForgotValues ==
    [email       |-> {<<>>, EmailA, EmailB},
     code        |-> {<<>>, Code},
     newPassword |-> {<<>>, ShortPassword, GoodPassword}]

NoResetCall == [made |-> FALSE, email |-> <<>>, code |-> <<>>, newPassword |-> <<>>,
                sentTo |-> NoValue]

\* the state after the first render, no call made yet; sending and resetting hold the
\* calls of handleSendCode and handleResetPassword that wait for the controller,
\* timers the pending setTimeout callbacks, sentTo the email of the latest
\* forgotPassword call that succeeded, resetCall the latest resetPassword call,
\* left how the form was left for the sign-in form
ForgotFormShown ==
    [email |-> <<>>, code |-> <<>>, newPassword |-> <<>>, step |-> "email",
     error |-> "", success |-> "", sending |-> <<>>, resetting |-> <<>>, timers |-> 0,
     authMode |-> "forgot-password", sentTo |-> NoValue, resetCall |-> NoResetCall,
     resetSucceeded |-> FALSE, left |-> ""]

\* the forms as long as no specification uses them
FormsNotShown ==
    /\ signUpForm = SignUpFormAt("")
    /\ forgotForm = ForgotFormShown

\* the session controller once its first state check found nobody signed in: the
\* state in which AuthPage renders the forms
AuthSettledAnonymous ==
    /\ user = AnonymousUser
    /\ isLoading = FALSE
    /\ error = NoValue
    /\ session = NoSession
    /\ ops = [k \in Slots |-> IdleOp]
    /\ mounted = TRUE

\* s without its i-th element
RemoveAt(s, i) == [j \in 1..(Len(s) - 1) |-> IF j < i THEN s[j] ELSE s[j + 1]]

\* ------------------------------------------------------------------------
\* Specification of the handler and its stores
\* ------------------------------------------------------------------------

\* the validator harness before the call
NotRun == [ran |-> FALSE, result |-> [threw |-> FALSE, isValid |-> FALSE, errors |-> <<>>]]

Init ==
    /\ inv = [i \in Invocations |-> IdleRun]
    /\ pool = {}
    /\ members = {}
    /\ bucket = {}
    /\ table = {}
    /\ uuidCount = 0
    /\ userSubInResponse \in BOOLEAN
    /\ vIn = NoFields
    /\ vOut = NotRun
    /\ AuthNotMounted
    /\ FormsNotShown

Next ==
    \/ \E i \in Invocations : \E b \in Bodies : Invoke(i, b)
    \/ \E i \in Invocations : \E o \in Outcomes : AdminCreateUser(i, o)
    \/ \E i \in Invocations : \E o \in Outcomes : AdminSetUserPassword(i, o)
    \/ \E i \in Invocations : \E o \in Outcomes : \E ts \in 1..MaxTime : S3Upload(i, o, ts)
    \/ \E i \in Invocations : \E o \in Outcomes : DynamoPut(i, o)
    \/ \E i \in Invocations : \E o \in Outcomes : AdminAddUserToGroup(i, o)

Spec == Init /\ [][Next]_vars

\* ------------------------------------------------------------------------
\* Specification of the validator alone: one call on one data object
\* ------------------------------------------------------------------------

NineDigits == <<"1", "2", "3", "4", "5", "6", "7", "8", "9">>

EmailValues ==
    { Undefined, Null, Num, Str(<<>>), Str(<<" ">>), Str(EmailA),
      Str(<<"a", "b">>), Str(<<"a", "@", "b">>), Str(<<"a", " ", "@", "b", ".", "c">>) }

PasswordValues ==
    { Undefined, Str(<<>>), Str(<<"A", "a", "1", "!">>), Str(GoodPassword),
      Str(<<" ", " ", " ", " ", " ", " ", " ", " ">>) }

FullNameValues == { Undefined, Str(<<>>), Str(<<" ">>), Str(GoodName) }

MobileValues ==
    { Undefined, Str(<<>>), Str(GoodMobile), Str(ShortNic),
      Str(<<"(", "4", "1", "5", ")", " ", "5", "5", "5", "-", "0", "1", "0", "0">>) }

NicValues ==
    { Undefined, Str(<<>>), Str(<<" ">>), Str(GoodNic), Str(NineDigits),
      Str(NineDigits \o <<"x">>), Str(ShortNic), Str(NineDigits \o <<"A">>),
      Str(NineDigits \o <<"0", "V">>) }

RoleValues ==
    { Undefined, Str(<<>>), Str(Buyer), Str(Seller),
      Str(<<"A", "d", "m", "i", "n">>), Str(<<"b", "u", "y", "e", "r">>) }

ValidatorInputs ==
    [email : EmailValues, password : PasswordValues, fullName : FullNameValues,
     mobileNumber : MobileValues, nicNumber : NicValues, role : RoleValues,
     nicPhotoBase64 : {Undefined}, nicPhotoContentType : {Undefined}]

InitV ==
    /\ vIn \in ValidatorInputs
    /\ vOut = NotRun
    /\ inv = [i \in Invocations |-> IdleRun]
    /\ pool = {}
    /\ members = {}
    /\ bucket = {}
    /\ table = {}
    /\ uuidCount = 0
    /\ userSubInResponse = FALSE
    /\ AuthNotMounted
    /\ FormsNotShown

\* const validation = validateRegistrationData(body)
Validate ==
    /\ ~vOut.ran
    /\ vOut' = [ran |-> TRUE, result |-> validateRegistrationData(vIn)]
    /\ UNCHANGED <<inv, pool, members, bucket, table, uuidCount, userSubInResponse, vIn, authVars, formVars>>

NextV == Validate

SpecV == InitV /\ [][NextV]_vars

\* ------------------------------------------------------------------------
\* Specification of the catch block alone: two caught errors, each answered
\* ------------------------------------------------------------------------

\* error.code of the errors a collaborator, JSON.parse or the runtime raises;
\* "none" is an error object without a code (SyntaxError, TypeError)
CaughtCodes == ErrorCodes \cup {"MissingRequiredParameter", "ThrottlingException", "none"}

\* error.message: the raw detail of the error
RawMessages ==
    {"User account already exists", "1 validation error detected: Value at 'password'",
     "Unexpected token } in JSON at position 12"}

CaughtErrors == [code : CaughtCodes, message : RawMessages]

\* a catch block that hands the raw detail of the error to the client
ErrorResponseForLeakingDetail(err) ==
    [ErrorResponse(err.code) EXCEPT !.body.message = err.message]

\* catch (error) { ... }: the response for the caught error object
ErrorResponseFor(err) == ErrorResponse(err.code)

InitC ==
    /\ vIn \in CaughtErrors \X CaughtErrors
    /\ vOut = [ran |-> FALSE, result |-> <<NoResponse, NoResponse>>]
    /\ inv = [i \in Invocations |-> IdleRun]
    /\ pool = {}
    /\ members = {}
    /\ bucket = {}
    /\ table = {}
    /\ uuidCount = 0
    /\ userSubInResponse = FALSE
    /\ AuthNotMounted
    /\ FormsNotShown

\* two runs reach the catch block, one with each error
HandleCaught ==
    /\ ~vOut.ran
    /\ vOut' = [ran |-> TRUE,
                result |-> <<ErrorResponseFor(vIn[1]), ErrorResponseFor(vIn[2])>>]
    /\ UNCHANGED <<inv, pool, members, bucket, table, uuidCount, userSubInResponse, vIn, authVars, formVars>>

NextC == HandleCaught

SpecC == InitC /\ [][NextC]_vars

\* ------------------------------------------------------------------------
\* Specification of the session controller: the mount effect and the calls of
\* the pages, each a sequence of steps separated by its awaits
\* ------------------------------------------------------------------------

\* useEffect(() => { checkAuthState(); }, []): the state check runs up to its
\* first await
Mount ==
    /\ ~mounted
    /\ mounted' = TRUE
    /\ isLoading' = TRUE
    /\ error' = NoValue
    /\ ops' = [ops EXCEPT ![0] = [IdleOp EXCEPT !.kind = "checkAuthState", !.pc = "check1"]]
    /\ UNCHANGED <<user, session, handlerVars, formVars>>

\* a page calls an operation: its statements up to the first await, in the
\* lowest free slot
Call(k, kind, who) ==
    /\ mounted
    /\ k \in 1..MaxOps
    /\ ops[k].pc = "idle"
    /\ \A j \in 1..MaxOps : j < k => ops[j].pc # "idle"
    /\ error' = NoValue
    /\ isLoading' = IF kind \in LoadingKinds THEN TRUE ELSE isLoading
    /\ ops' = [ops EXCEPT ![k] =
                  [IdleOp EXCEPT !.kind = kind, !.pc = "call", !.who = who]]
    /\ UNCHANGED <<user, session, mounted, handlerVars, formVars>>

\* the catch block of an operation, then its finally block if it has one
Rejected(k, err) ==
    /\ error' = getErrorMessage(err)
    /\ isLoading' = IF ops[k].kind \in LoadingKinds THEN FALSE ELSE isLoading
    /\ ops' = [ops EXCEPT ![k] = [IdleOp EXCEPT !.kind = ops[k].kind, !.pc = "done",
                                             !.outcome = Failure(getErrorMessage(err))]]

\* Fulfilled without the finally block
FulfilledNoFinally(k) ==
    /\ isLoading' = isLoading
    /\ ops' = [ops EXCEPT ![k] = [IdleOp EXCEPT !.kind = ops[k].kind, !.pc = "done",
                                             !.outcome = Success,
                                             !.checked = ops[k].checked]]

\* return { success: true, ... }, then the finally block if the operation has one
Fulfilled(k) ==
    /\ isLoading' = IF ops[k].kind \in LoadingKinds THEN FALSE ELSE isLoading
    /\ ops' = [ops EXCEPT ![k] = [IdleOp EXCEPT !.kind = ops[k].kind, !.pc = "done",
                                             !.outcome = Success,
                                             !.checked = ops[k].checked]]

\* an operation that goes on without running the state check
EnterCheckSkipped(k) ==
    /\ isLoading' = TRUE
    /\ error' = NoValue
    /\ ops' = [ops EXCEPT ![k].pc = "return"]

\* await checkAuthState(): the statements of checkAuthState up to its first await
EnterCheck(k) ==
    /\ isLoading' = TRUE
    /\ error' = NoValue
    /\ ops' = [ops EXCEPT ![k].pc = "check1"]

\* where a state check goes when it has finished: the mount effect is over, a
\* calling operation continues after its await
AfterCheck(k) == IF k = 0 THEN "done" ELSE "return"

\* checkAuthState, catch and finally: one of its two provider calls rejected
CheckFailed(k) ==
    /\ user' = AnonymousUser
    /\ isLoading' = FALSE
    /\ ops' = [ops EXCEPT ![k].pc = AfterCheck(k), ![k].checked = "anonymous"]

SignInCall(k, who) == Call(k, "signIn", who)

\* signIn after await Auth.signIn(email, password)
SignInAnswer(k, a) ==
    /\ ops[k].kind = "signIn" /\ ops[k].pc = "call"
    /\ IF a = Ok
       THEN /\ session' = ops[k].who
            /\ EnterCheck(k)
       ELSE /\ session' = session
            /\ Rejected(k, IF a = Challenge THEN PasswordChangeRequired ELSE a)
    /\ UNCHANGED <<user, mounted, handlerVars, formVars>>

\* the operations that make one provider call and change no session state,
\* after that call
PlainAnswer(k, kind, a) ==
    /\ ops[k].kind = kind /\ ops[k].pc = "call"
    /\ IF a = Ok THEN Fulfilled(k) /\ error' = error ELSE Rejected(k, a)
    /\ UNCHANGED <<user, session, mounted, handlerVars, formVars>>

SignUpCall(k) == Call(k, "signUp", NoSession)

\* signUp after await Auth.signUp(...)
SignUpAnswer(k, a) == PlainAnswer(k, "signUp", a)

ConfirmSignUpCall(k) == Call(k, "confirmSignUp", NoSession)

\* confirmSignUp after await Auth.confirmSignUp(email, code)
ConfirmSignUpAnswer(k, a) == PlainAnswer(k, "confirmSignUp", a)

ResendConfirmationCodeCall(k) == Call(k, "resendConfirmationCode", NoSession)

\* resendConfirmationCode after await Auth.resendSignUp(email)
ResendConfirmationCodeAnswer(k, a) == PlainAnswer(k, "resendConfirmationCode", a)

ForgotPasswordCall(k) == Call(k, "forgotPassword", NoSession)

\* forgotPassword after await Auth.forgotPassword(email)
ForgotPasswordAnswer(k, a) == PlainAnswer(k, "forgotPassword", a)

ResetPasswordCall(k) == Call(k, "resetPassword", NoSession)

\* resetPassword after await Auth.forgotPasswordSubmit(email, code, newPassword)
ResetPasswordAnswer(k, a) == PlainAnswer(k, "resetPassword", a)

SignOutCall(k) == Call(k, "signOut", NoSession)

\* signOut that clears the user whatever Auth.signOut answered
SignOutAnswerClearsAnyway(k, a) ==
    /\ ops[k].kind = "signOut" /\ ops[k].pc = "call"
    /\ IF a = Ok
       THEN /\ session' = NoSession
            /\ user' = AnonymousUser
            /\ Fulfilled(k)
            /\ error' = error
       ELSE /\ session' = session
            /\ user' = AnonymousUser
            /\ Rejected(k, a)
    /\ UNCHANGED <<mounted, handlerVars, formVars>>

\* signOut after await Auth.signOut()
SignOutAnswer(k, a) ==
    /\ ops[k].kind = "signOut" /\ ops[k].pc = "call"
    /\ IF a = Ok
       THEN /\ session' = NoSession
            /\ user' = AnonymousUser
            /\ Fulfilled(k)
            /\ error' = error
       ELSE /\ session' = session
            /\ user' = user
            /\ Rejected(k, a)
    /\ UNCHANGED <<mounted, handlerVars, formVars>>

UpdateUserProfileCall(k) == Call(k, "updateUserProfile", NoSession)

\* updateUserProfile after await Auth.currentAuthenticatedUser(): the call
\* resolves with the signed-in user only when there is one
UpdateCurrentUser(k, a) ==
    /\ ops[k].kind = "updateUserProfile" /\ ops[k].pc = "call"
    /\ a = Ok => session # NoSession
    /\ IF a = Ok
       THEN /\ ops' = [ops EXCEPT ![k].pc = "call2", ![k].currentUser = session]
            /\ UNCHANGED <<isLoading, error>>
       ELSE Rejected(k, a)
    /\ UNCHANGED <<user, session, mounted, handlerVars, formVars>>

\* updateUserProfile after await Auth.updateUserAttributes(currentUser, attributes)
UpdateAttributes(k, a) ==
    /\ ops[k].kind = "updateUserProfile" /\ ops[k].pc = "call2"
    /\ IF a = Ok THEN EnterCheck(k) ELSE Rejected(k, a)
    /\ UNCHANGED <<user, session, mounted, handlerVars, formVars>>

\* checkAuthState after await Auth.currentAuthenticatedUser()
CheckCurrentUser(k, a) ==
    /\ ops[k].pc = "check1"
    /\ a = Ok => session # NoSession
    /\ IF a = Ok
       THEN /\ ops' = [ops EXCEPT ![k].pc = "check2", ![k].currentUser = session]
            /\ UNCHANGED <<user, isLoading>>
       ELSE CheckFailed(k)
    /\ UNCHANGED <<error, session, mounted, handlerVars, formVars>>

\* checkAuthState after await Auth.userAttributes(currentUser): the request
\* was made with the tokens of currentUser and is answered whatever has
\* happened to the session since
CheckAttributes(k, a) ==
    /\ ops[k].pc = "check2"
    /\ IF a = Ok
       THEN /\ user' = UserData(ops[k].currentUser)
            /\ isLoading' = FALSE
            /\ ops' = [ops EXCEPT ![k].pc = AfterCheck(k), ![k].checked = ops[k].currentUser]
       ELSE CheckFailed(k)
    /\ UNCHANGED <<error, session, mounted, handlerVars, formVars>>

\* signIn and updateUserProfile after await checkAuthState()
CheckReturned(k) ==
    /\ ops[k].pc = "return"
    /\ Fulfilled(k)
    /\ UNCHANGED <<user, error, session, mounted, handlerVars, formVars>>

\* the caller has its outcome: the slot is free for the next call
Collect(k) ==
    /\ k \in 1..MaxOps
    /\ ops[k].pc = "done"
    /\ ops' = [ops EXCEPT ![k] = IdleOp]
    /\ UNCHANGED <<user, isLoading, error, session, mounted, handlerVars, formVars>>

\* clearError
ClearError ==
    /\ mounted
    /\ error # NoValue
    /\ error' = NoValue
    /\ UNCHANGED <<user, isLoading, session, ops, mounted, handlerVars, formVars>>

\* a browser that may hold the session of an earlier visit
InitA ==
    /\ user = defaultUser
    /\ isLoading = TRUE
    /\ error = NoValue
    /\ session \in Users \cup {NoSession}
    /\ ops = [k \in Slots |-> IdleOp]
    /\ mounted = FALSE
    /\ FormsNotShown
    /\ inv = [i \in Invocations |-> IdleRun]
    /\ pool = {}
    /\ members = {}
    /\ bucket = {}
    /\ table = {}
    /\ uuidCount = 0
    /\ userSubInResponse = FALSE
    /\ vIn = NoFields
    /\ vOut = NotRun

NextA ==
    \/ Mount
    \/ \E k \in Slots : \E u \in Users : SignInCall(k, u)
    \/ \E k \in Slots : \E a \in AuthAnswers \cup {Challenge} : SignInAnswer(k, a)
    \/ \E k \in Slots : SignUpCall(k)
    \/ \E k \in Slots : \E a \in AuthAnswers : SignUpAnswer(k, a)
    \/ \E k \in Slots : ConfirmSignUpCall(k)
    \/ \E k \in Slots : \E a \in AuthAnswers : ConfirmSignUpAnswer(k, a)
    \/ \E k \in Slots : ResendConfirmationCodeCall(k)
    \/ \E k \in Slots : \E a \in AuthAnswers : ResendConfirmationCodeAnswer(k, a)
    \/ \E k \in Slots : ForgotPasswordCall(k)
    \/ \E k \in Slots : \E a \in AuthAnswers : ForgotPasswordAnswer(k, a)
    \/ \E k \in Slots : ResetPasswordCall(k)
    \/ \E k \in Slots : \E a \in AuthAnswers : ResetPasswordAnswer(k, a)
    \/ \E k \in Slots : SignOutCall(k)
    \/ \E k \in Slots : \E a \in AuthAnswers : SignOutAnswer(k, a)
    \/ \E k \in Slots : UpdateUserProfileCall(k)
    \/ \E k \in Slots : \E a \in AuthAnswers : UpdateCurrentUser(k, a)
    \/ \E k \in Slots : \E a \in AuthAnswers : UpdateAttributes(k, a)
    \/ \E k \in Slots : \E a \in AuthAnswers : CheckCurrentUser(k, a)
    \/ \E k \in Slots : \E a \in AuthAnswers : CheckAttributes(k, a)
    \/ \E k \in Slots : CheckReturned(k)
    \/ \E k \in Slots : Collect(k)
    \/ ClearError

SpecA == InitA /\ [][NextA]_vars

\* the session controller with a browser that runs the mount effect and a
\* provider that answers the two calls of its state check
SpecAFair ==
    /\ SpecA
    /\ WF_vars(Mount)
    /\ WF_vars(\E a \in AuthAnswers : CheckCurrentUser(0, a))
    /\ WF_vars(\E a \in AuthAnswers : CheckAttributes(0, a))

\* ------------------------------------------------------------------------
\* Specification of getErrorMessage alone: one call on one provider error
\* ------------------------------------------------------------------------

\* error.code: the nine codes of the switch, two codes it does not list, and
\* "" for an error without a code
ProviderCodes ==
    {"UserNotFoundException", "NotAuthorizedException", "UserNotConfirmedException",
     "UsernameExistsException", "InvalidPasswordException", "InvalidParameterException",
     "CodeMismatchException", "ExpiredCodeException", "LimitExceededException",
     "TooManyRequestsException", "NetworkError", ""}

\* error.message: raw messages of the provider, and "" for an error without one
ProviderMessages ==
    {"", "User does not exist.", "Incorrect username or password.",
     "Network error", "Rate exceeded"}

ProviderErrors == [code : ProviderCodes, message : ProviderMessages]

InitE ==
    /\ vIn \in ProviderErrors
    /\ vOut = [ran |-> FALSE, result |-> ""]
    /\ inv = [i \in Invocations |-> IdleRun]
    /\ pool = {}
    /\ members = {}
    /\ bucket = {}
    /\ table = {}
    /\ uuidCount = 0
    /\ userSubInResponse = FALSE
    /\ AuthNotMounted
    /\ FormsNotShown

\* const errorMessage = getErrorMessage(error)
MapError ==
    /\ ~vOut.ran
    /\ vOut' = [ran |-> TRUE, result |-> getErrorMessage(vIn)]
    /\ UNCHANGED <<inv, pool, members, bucket, table, uuidCount, userSubInResponse, vIn, authVars, formVars>>

NextE == MapError

SpecE == InitE /\ [][NextE]_vars

\* ------------------------------------------------------------------------
\* Specification of the sign-up form
\* ------------------------------------------------------------------------

\* the handler and its stores as long as no request reaches them
HandlerNotInvoked ==
    /\ inv = [i \in Invocations |-> IdleRun]
    /\ pool = {}
    /\ members = {}
    /\ bucket = {}
    /\ table = {}
    /\ uuidCount = 0
    /\ userSubInResponse = FALSE
    /\ vIn = NoFields
    /\ vOut = [ran |-> FALSE, result |-> ""]

\* the page with the sign-up form on it, the API base URL set or not
InitF ==
    /\ signUpForm \in {SignUpFormAt(base) : base \in ApiBaseUrls}
    /\ forgotForm = ForgotFormShown
    /\ AuthSettledAnonymous
    /\ HandlerNotInvoked

\* disabled={isLoading || isSubmitting}, and the form is gone after router.push
FormEnabled ==
    /\ ~isLoading
    /\ ~signUpForm.isSubmitting
    /\ signUpForm.route = NotNavigated

\* handleInputChange and handleFileChange, then the effect on [formData, clearError,
\* error]: clearError() and setErrors({})
HandleChange(f, v) ==
    /\ FormEnabled
    /\ signUpForm.formData[f] # v
    /\ signUpForm' = [signUpForm EXCEPT !.formData[f] = v, !.errors = NoErrors]
    /\ error' = NoValue
    /\ UNCHANGED <<user, isLoading, session, ops, mounted, forgotForm, handlerVars>>

\* the catch block, console.error('Sign up error:', error), then the finally block
CatchSignUpError(form) ==
    [form EXCEPT !.logged = TRUE, !.isSubmitting = FALSE, !.pc = "idle",
                 !.submitted = EmptyFormData, !.nicPhotoBase64 = <<>>]

\* the finally block: setIsSubmitting(false); the locals of the call are gone
FinallySignUp(form) ==
    [form EXCEPT !.isSubmitting = FALSE, !.pc = "idle",
                 !.submitted = EmptyFormData, !.nicPhotoBase64 = <<>>]

\* await registerUser({...}) up to the fetch: throws when API_BASE_URL is empty, and
\* the throw lands in the catch block of handleSubmit
registerUser(form, nicPhotoBase64, nicPhotoContentType) ==
    IF form.apiBaseUrl = ""
    THEN CatchSignUpError(form)
    ELSE [form EXCEPT !.pc = "posting",
                      !.nicPhotoBase64 = nicPhotoBase64,
                      !.request = [sent |-> TRUE, url |-> RegisterUrl(form.apiBaseUrl),
                                   payload |-> Payload(form.submitted, nicPhotoBase64,
                                                       nicPhotoContentType)]]

\* handleSubmit up to its first await: validateForm() with its setErrors(newErrors),
\* setIsSubmitting(true), then fileToBase64 when a photo is attached and registerUser
\* at once when none is
HandleSubmit ==
    /\ FormEnabled
    /\ signUpForm.pc = "idle"
    /\ LET started == [signUpForm EXCEPT !.request = NoRequest, !.response = "none",
                                         !.logged = FALSE]
       IN  IF ~validateForm(signUpForm.formData)
           THEN signUpForm' = [started EXCEPT !.errors =
                                   [fields |-> FormErrors(signUpForm.formData),
                                    general |-> ""]]
           ELSE LET go == [started EXCEPT !.errors = NoErrors, !.isSubmitting = TRUE,
                                          !.submitted = signUpForm.formData]
                IN  IF signUpForm.formData.nicPhoto.present
                    THEN signUpForm' = [go EXCEPT !.pc = "encoding"]
                    ELSE signUpForm' = registerUser(go, <<>>, Undefined)
    /\ UNCHANGED <<authVars, forgotForm, handlerVars>>

\* fileToBase64 resolved: nicPhotoContentType = formData.nicPhoto.type, then
\* registerUser
Encoded ==
    /\ signUpForm.pc = "encoding"
    /\ signUpForm' = registerUser(signUpForm, fileToBase64(signUpForm.submitted.nicPhoto),
                                  Str(<<signUpForm.submitted.nicPhoto.type>>))
    /\ UNCHANGED <<authVars, forgotForm, handlerVars>>

\* reader.onerror = reject
EncodingFailed ==
    /\ signUpForm.pc = "encoding"
    /\ signUpForm' = CatchSignUpError(signUpForm)
    /\ UNCHANGED <<authVars, forgotForm, handlerVars>>

\* a form that navigates on every response, whatever its status
AnsweredNavigatesAlways(a) ==
    /\ signUpForm.pc = "posting"
    /\ CASE a = "rejected" -> signUpForm' = CatchSignUpError(signUpForm)
         [] OTHER ->
              signUpForm' = [FinallySignUp(signUpForm) EXCEPT
                                !.response = a,
                                !.route = ConfirmRoute(signUpForm.submitted.email)]
    /\ UNCHANGED <<authVars, forgotForm, handlerVars>>

\* the fetch settled: router.push on response.ok, await response.json() otherwise,
\* the catch block when it rejected
Answered(a) ==
    /\ signUpForm.pc = "posting"
    /\ CASE a = "rejected" -> signUpForm' = CatchSignUpError(signUpForm)
         [] a = "ok" ->
              signUpForm' = [FinallySignUp(signUpForm) EXCEPT
                                !.response = "ok",
                                !.route = ConfirmRoute(signUpForm.submitted.email)]
         [] OTHER -> signUpForm' = [signUpForm EXCEPT !.response = a, !.pc = "reading"]
    /\ UNCHANGED <<authVars, forgotForm, handlerVars>>

\* response.json().catch(() => ({})) settled:
\* setErrors(prev => ({ ...prev, general: data?.message || 'Registration failed' }))
ReadJson(m) ==
    /\ signUpForm.pc = "reading"
    /\ signUpForm' = [FinallySignUp(signUpForm) EXCEPT
                         !.errors.general = IF m = "" THEN "Registration failed" ELSE m]
    /\ UNCHANGED <<authVars, forgotForm, handlerVars>>

NextF ==
    \/ \E f \in DOMAIN EmptyFormData : \E v \in FormValues[f] : HandleChange(f, v)
    \/ HandleSubmit
    \/ Encoded
    \/ EncodingFailed
    \/ \E a \in FetchAnswers : Answered(a)
    \/ \E m \in JsonMessages : ReadJson(m)

SpecF == InitF /\ [][NextF]_vars

\* ------------------------------------------------------------------------
\* Specification of the forgot-password form
\* ------------------------------------------------------------------------

\* AuthPage with authMode 'forgot-password'
InitP ==
    /\ forgotForm = ForgotFormShown
    /\ signUpForm = SignUpFormAt("")
    /\ AuthSettledAnonymous
    /\ HandlerNotInvoked

\* the form is rendered, and its inputs and buttons are not disabled={isLoading}
ForgotFormEnabled ==
    /\ forgotForm.authMode = "forgot-password"
    /\ ~isLoading

\* onChange={(e) => setEmail(e.target.value)}: the input of the email step
SetEmail(v) ==
    /\ ForgotFormEnabled
    /\ forgotForm.step = "email"
    /\ forgotForm.email # v
    /\ forgotForm' = [forgotForm EXCEPT !.email = v]
    /\ UNCHANGED <<authVars, signUpForm, handlerVars>>

\* onChange={(e) => setCode(e.target.value)}: an input of the code step
SetCode(v) ==
    /\ ForgotFormEnabled
    /\ forgotForm.step = "code"
    /\ forgotForm.code # v
    /\ forgotForm' = [forgotForm EXCEPT !.code = v]
    /\ UNCHANGED <<authVars, signUpForm, handlerVars>>

\* onChange={(e) => setNewPassword(e.target.value)}: an input of the code step
SetNewPassword(v) ==
    /\ ForgotFormEnabled
    /\ forgotForm.step = "code"
    /\ forgotForm.newPassword # v
    /\ forgotForm' = [forgotForm EXCEPT !.newPassword = v]
    /\ UNCHANGED <<authVars, signUpForm, handlerVars>>

\* handleSendCode up to await forgotPassword(email), and forgotPassword of the
\* controller up to await Auth.forgotPassword(email): setError(null)
HandleSendCode ==
    /\ ForgotFormEnabled
    /\ forgotForm.step = "email"
    /\ IF forgotForm.email = <<>>
       THEN /\ forgotForm' = [forgotForm EXCEPT !.error = "Email is required",
                                                !.success = ""]
            /\ error' = error
       ELSE /\ Len(forgotForm.sending) < MaxOps
            /\ forgotForm' = [forgotForm EXCEPT
                                 !.error = "", !.success = "",
                                 !.sending = Append(@, forgotForm.email)]
            /\ error' = NoValue
    /\ UNCHANGED <<user, isLoading, session, ops, mounted, signUpForm, handlerVars>>

\* Auth.forgotPassword settled: forgotPassword returns success or the message it
\* put into the controller's error, and handleSendCode goes to the code step or
\* shows the message
SendCodeAnswered(i, a) ==
    /\ forgotForm.authMode = "forgot-password"
    /\ i \in 1..Len(forgotForm.sending)
    /\ IF a = Ok
       THEN /\ forgotForm' = [forgotForm EXCEPT
                                 !.sending = RemoveAt(@, i),
                                 !.success = "Verification code sent to your email",
                                 !.step = "code",
                                 !.sentTo = forgotForm.sending[i]]
            /\ error' = error
       ELSE /\ forgotForm' = [forgotForm EXCEPT
                                 !.sending = RemoveAt(@, i),
                                 !.error = IF getErrorMessage(a) = ""
                                           THEN "Failed to send verification code"
                                           ELSE getErrorMessage(a)]
            /\ error' = getErrorMessage(a)
    /\ UNCHANGED <<user, isLoading, session, ops, mounted, signUpForm, handlerVars>>

\* handleResetPassword up to await resetPassword(email, code, newPassword), and
\* resetPassword of the controller up to await Auth.forgotPasswordSubmit: setError(null)
HandleResetPassword ==
    /\ ForgotFormEnabled
    /\ forgotForm.step = "code"
    /\ IF forgotForm.code = <<>> \/ forgotForm.newPassword = <<>>
       THEN /\ forgotForm' = [forgotForm EXCEPT
                                 !.error = "Code and new password are required",
                                 !.success = ""]
            /\ error' = error
       ELSE IF Len(forgotForm.newPassword) < 8
       THEN /\ forgotForm' = [forgotForm EXCEPT
                                 !.error = "Password must be at least 8 characters",
                                 !.success = ""]
            /\ error' = error
       ELSE /\ Len(forgotForm.resetting) + forgotForm.timers < MaxOps
            /\ forgotForm' = [forgotForm EXCEPT
                                 !.error = "", !.success = "",
                                 !.resetting = Append(@, forgotForm.email),
                                 !.resetCall = [made |-> TRUE,
                                                email |-> forgotForm.email,
                                                code |-> forgotForm.code,
                                                newPassword |-> forgotForm.newPassword,
                                                sentTo |-> forgotForm.sentTo]]
            /\ error' = NoValue
    /\ UNCHANGED <<user, isLoading, session, ops, mounted, signUpForm, handlerVars>>

\* Auth.forgotPasswordSubmit settled: on success the message and
\* setTimeout(() => onBackToSignIn(), 2000), else the error message
ResetAnswered(i, a) ==
    /\ forgotForm.authMode = "forgot-password"
    /\ i \in 1..Len(forgotForm.resetting)
    /\ IF a = Ok
       THEN /\ forgotForm' = [forgotForm EXCEPT
                                 !.resetting = RemoveAt(@, i),
                                 !.success = "Password reset successfully. You can now sign in.",
                                 !.timers = @ + 1,
                                 !.resetSucceeded = TRUE]
            /\ error' = error
       ELSE /\ forgotForm' = [forgotForm EXCEPT
                                 !.resetting = RemoveAt(@, i),
                                 !.error = IF getErrorMessage(a) = ""
                                           THEN "Failed to reset password"
                                           ELSE getErrorMessage(a)]
            /\ error' = getErrorMessage(a)
    /\ UNCHANGED <<user, isLoading, session, ops, mounted, signUpForm, handlerVars>>

\* the callback of setTimeout: onBackToSignIn(), that is setAuthMode('signin')
ResetTimeout ==
    /\ forgotForm.authMode = "forgot-password"
    /\ forgotForm.timers > 0
    /\ forgotForm' = [forgotForm EXCEPT !.timers = @ - 1, !.authMode = "signin",
                                        !.left = "timer"]
    /\ UNCHANGED <<authVars, signUpForm, handlerVars>>

\* the button of the email step: onClick={onBackToSignIn}
BackToSignIn ==
    /\ ForgotFormEnabled
    /\ forgotForm.step = "email"
    /\ forgotForm' = [forgotForm EXCEPT !.authMode = "signin", !.left = "back"]
    /\ UNCHANGED <<authVars, signUpForm, handlerVars>>

\* the button of the code step: onClick={() => setStep('email')}
BackToEmail ==
    /\ ForgotFormEnabled
    /\ forgotForm.step = "code"
    /\ forgotForm' = [forgotForm EXCEPT !.step = "email"]
    /\ UNCHANGED <<authVars, signUpForm, handlerVars>>

NextP ==
    \/ \E v \in ForgotValues.email : SetEmail(v)
    \/ \E v \in ForgotValues.code : SetCode(v)
    \/ \E v \in ForgotValues.newPassword : SetNewPassword(v)
    \/ HandleSendCode
    \/ \E i \in 1..MaxOps : \E a \in AuthAnswers : SendCodeAnswered(i, a)
    \/ HandleResetPassword
    \/ \E i \in 1..MaxOps : \E a \in AuthAnswers : ResetAnswered(i, a)
    \/ ResetTimeout
    \/ BackToSignIn
    \/ BackToEmail

SpecP == InitP /\ [][NextP]_vars

\* ------------------------------------------------------------------------
\* Properties of the handler
\* ------------------------------------------------------------------------

Done(i) == inv[i].pc = "done"

Status(i) == inv[i].response.statusCode

\* the names of the collaborator calls run i made, in order
OpsOf(i) == [k \in 1..Len(inv[i].calls) |-> inv[i].calls[k].op]

\* the body parses and the validator returns a non-empty error list for it
BodyFailsValidation(b) ==
    /\ ~ParseBody(b).threw
    /\ ~validateRegistrationData(ParseBody(b).data).threw
    /\ ~validateRegistrationData(ParseBody(b).data).isValid

\* the body parses and the validator accepts it
BodyValid(b) ==
    /\ ~ParseBody(b).threw
    /\ ~validateRegistrationData(ParseBody(b).data).threw
    /\ validateRegistrationData(ParseBody(b).data).isValid

\* the event bodies the validator rejects, and those it accepts
InvalidBodies == { b \in Bodies : BodyFailsValidation(b) }

ValidBodies == { b \in Bodies : BodyValid(b) }

\* C1: a request whose body fails server-side validation is answered 400
\* "Validation failed" with a non-empty details list, and the run makes no call
\* to the identity provider, the document store or the profile store.
C1_ValidationFailureMakesNoCall ==
    \A i \in Invocations :
        (inv[i].pc # "idle" /\ inv[i].body \in InvalidBodies) =>
            /\ Done(i)
            /\ Status(i) = 400
            /\ inv[i].response.body.error = "Validation failed"
            /\ Len(inv[i].response.body.details) > 0
            /\ inv[i].calls = <<>>

C1_Witness ==
    \E i \in Invocations :
        /\ Done(i)
        /\ inv[i].body \in InvalidBodies
        /\ inv[i].body.kind = "object"
        /\ Status(i) = 400
        /\ inv[i].response.body.details = <<"Invalid NIC number format">>
        /\ pool = {} /\ bucket = {} /\ table = {}

\* C2: a failed step is the last call of its run, and a create-identity call
\* that reports UsernameExistsException ends the run with 409 after that one
\* call: no document-store call and no profile-store call.
C2_FailureShortCircuits ==
    \A i \in Invocations :
        LET c == inv[i].calls
        IN  /\ \A k \in 1..Len(c) : ~c[k].ok => (k = Len(c) /\ Done(i) /\ Status(i) # 201)
            /\ (Len(c) >= 1 /\ ~c[1].ok /\ inv[i].caught = "UsernameExistsException") =>
                   /\ Status(i) = 409
                   /\ OpsOf(i) = <<"adminCreateUser">>

C2_Witness ==
    \E i \in Invocations :
        /\ OpsOf(i) = <<"adminCreateUser">>
        /\ ~inv[i].calls[1].ok
        /\ inv[i].caught = "UsernameExistsException"
        /\ Status(i) = 409

\* the status the catch block owes to an error code
StatusForCode(code) ==
    CASE code = "UsernameExistsException" -> 409
      [] code \in {"InvalidPasswordException", "InvalidParameterException"} -> 400
      [] OTHER -> 500

\* a run has a response exactly when it has returned
C3_ResponseShape ==
    \A i \in Invocations :
        /\ Done(i) <=> inv[i].response # NoResponse
        /\ Done(i) => Status(i) \in {201, 400, 409, 500}
        /\ (Done(i) /\ inv[i].caught # "none") => Status(i) = StatusForCode(inv[i].caught)

\* C3: every run ends with exactly one response (a response, once returned, is
\* never replaced), and the status of a failed run depends only on the code of
\* the error caught: 409, 400, 400 for the three named codes and 500 otherwise,
\* whichever step raised it.
C3_OneResponseStatusByCode ==
    /\ []C3_ResponseShape
    /\ [][\A i \in Invocations : Done(i) => inv'[i] = inv[i]]_vars

C3_Witness ==
    \E i \in Invocations :
        /\ Done(i)
        /\ Len(inv[i].calls) >= 3
        /\ inv[i].calls[Len(inv[i].calls)].op = "dynamodb.put"
        /\ inv[i].caught = "InvalidPasswordException"
        /\ Status(i) = 400

\* the sequence of calls a successful run for this data makes
FullSequence(data) ==
    IF HasPhoto(data)
    THEN <<"adminCreateUser", "adminSetUserPassword", "s3.upload",
           "dynamodb.put", "adminAddUserToGroup">>
    ELSE <<"adminCreateUser", "adminSetUserPassword", "dynamodb.put", "adminAddUserToGroup">>

\* C4: a 201 is returned only by a run in which create-identity, set-password,
\* the upload (when an image was supplied), the profile put and add-to-group
\* all succeeded; its body carries the run's generated userId, the request's
\* email and role and requiresConfirmation = true, and the userId is not the
\* email.
C4_CreatedOnlyAfterAllSteps ==
    \A i \in Invocations :
        Status(i) = 201 =>
            /\ OpsOf(i) = FullSequence(inv[i].data)
            /\ \A k \in 1..Len(inv[i].calls) : inv[i].calls[k].ok
            /\ inv[i].response.body.userId = inv[i].userId
            /\ inv[i].userId \in { uuidv4(n) : n \in 0..(uuidCount - 1) }
            /\ inv[i].response.body.email = ParseBody(inv[i].body).data.email
            /\ inv[i].response.body.role = ParseBody(inv[i].body).data.role
            /\ inv[i].response.body.requiresConfirmation = TRUE
            /\ inv[i].response.body.userId # inv[i].response.body.email.s

C4_Witness ==
    \E i \in Invocations :
        /\ Status(i) = 201
        /\ HasPhoto(inv[i].data)
        /\ Len(inv[i].calls) = 5
        /\ \E it \in table : it.userId = inv[i].response.body.userId

\* a call the collaborator's interface admits: every call but an add-to-group
\* whose Username parameter is missing
WellFormed(call) ==
    call.op = "adminAddUserToGroup" => Truthy(call.arg.Username)

\* the items run i has in the profile store
ItemsOf(i) == { it \in table : it.userId = inv[i].userId }

\* C5: a valid request without an image, for an email the identity provider
\* does not know, served by collaborators that accept every well-formed call,
\* ends in 201 with no document-store call and a persisted profile whose
\* document locator is null.
C5_NoImageSucceeds ==
    \A i \in Invocations :
        ( /\ Done(i)
          /\ inv[i].body \in ValidBodies
          /\ ~HasPhoto(ParseBody(inv[i].body).data)
          /\ ~inv[i].sawExisting
          /\ \A k \in 1..Len(inv[i].calls) :
                 WellFormed(inv[i].calls[k]) => inv[i].calls[k].ok )
        =>
            /\ Status(i) = 201
            /\ \A k \in 1..Len(inv[i].calls) : inv[i].calls[k].op # "s3.upload"
            /\ \E it \in ItemsOf(i) : it.nicPhotoUrl = NullLocator

\* C6 as stated: a run that found the identity record of its email already
\* created returns 409 and persists no profile record.
C6_RetryAlwaysConflicts ==
    \A j \in Invocations :
        (Done(j) /\ inv[j].sawExisting) =>
            /\ Status(j) = 409
            /\ ItemsOf(j) = {}

\* C6 (amended): a run that found the identity record of its email already
\* created stops at its create-identity call, never returns 201 and persists
\* nothing; it returns 409 exactly when that call reported
\* UsernameExistsException, and 400 or 500 by the code of the error otherwise.
C6_RetryNeverRegisters ==
    \A j \in Invocations :
        inv[j].sawExisting =>
            /\ Done(j)
            /\ OpsOf(j) = <<"adminCreateUser">>
            /\ ~inv[j].calls[1].ok
            /\ Status(j) # 201
            /\ ItemsOf(j) = {}
            /\ Status(j) = 409 <=> inv[j].caught = "UsernameExistsException"

C6_Witness ==
    \E i \in Invocations : \E j \in Invocations :
        /\ i # j
        /\ inv[i].body = inv[j].body
        /\ Len(inv[i].calls) >= 2 /\ inv[i].calls[1].ok /\ ~inv[i].calls[2].ok
        /\ inv[j].sawExisting
        /\ Status(j) = 409

\* C7: every add-to-group call of a Buyer request names the buyer group and
\* every such call of a Seller request names the seller group; an identity is
\* only ever a member of the group of the role it registered with; a run that
\* returned 201 made exactly one add-to-group call.
C7_GroupMatchesRole ==
    /\ \A i \in Invocations : \A k \in 1..Len(inv[i].calls) :
           inv[i].calls[k].op = "adminAddUserToGroup" =>
               /\ inv[i].data.role = Str(Buyer) => inv[i].calls[k].arg.GroupName = "Buyers"
               /\ inv[i].data.role = Str(Seller) => inv[i].calls[k].arg.GroupName = "Sellers"
    /\ \A m \in members : \A u \in pool :
           u.Username = m.Username =>
               /\ m.GroupName = "Buyers" <=> u.role = Str(Buyer)
               /\ m.GroupName = "Sellers" <=> u.role = Str(Seller)
    /\ \A i \in Invocations :
           Status(i) = 201 =>
               Cardinality({k \in 1..Len(inv[i].calls) :
                               inv[i].calls[k].op = "adminAddUserToGroup"}) = 1

C7_Witness ==
    /\ [Username |-> EmailA, GroupName |-> "Buyers"] \in members
    /\ [Username |-> EmailB, GroupName |-> "Sellers"] \in members
    /\ \A i \in Invocations : Status(i) = 201

\* C8: no profile record is active unless the identity provider holds its
\* email as verified.
C8_ActiveOnlyWhenConfirmed ==
    \A it \in table :
        it.isActive => \E u \in pool : u.Username = it.email.s /\ u.email_verified = "true"

\* the runs whose profile put succeeded
Writers ==
    { i \in Invocations :
        \E k \in 1..Len(inv[i].calls) :
            inv[i].calls[k].op = "dynamodb.put" /\ inv[i].calls[k].ok }

C9_UniqueIds ==
    /\ \A a \in table : \A b \in table : a.userId = b.userId => a = b
    /\ \A i \in Invocations :
           /\ Cardinality({k \in 1..Len(inv[i].calls) :
                              inv[i].calls[k].op = "dynamodb.put"}) <= 1
           /\ \A k \in 1..Len(inv[i].calls) :
                  inv[i].calls[k].op = "dynamodb.put" => inv[i].calls[k].arg = Str(inv[i].userId)
    /\ \A i \in Writers : \A j \in Writers : i # j => inv[i].userId # inv[j].userId
    /\ \A i \in Writers : \E it \in table :
           it.userId = inv[i].userId /\ it.email = inv[i].data.email /\ it.role = inv[i].data.role
    /\ Cardinality(table) = Cardinality(Writers)

\* C9: no two profile records share a userId; each run writes the profile
\* store at most once, under the userId it generated; a record, once written,
\* is never replaced or removed by any run.
C9_UserIdUniqueAndStable ==
    /\ []C9_UniqueIds
    /\ [][\A it \in table : it \in table']_vars

C9_Witness ==
    /\ Cardinality(table) = 2
    /\ Cardinality(Writers) = 2
    /\ \E a \in table : \E b \in table : a.userId # b.userId /\ a.email # b.email

\* ------------------------------------------------------------------------
\* Properties of the validator
\* ------------------------------------------------------------------------

\* a field that is absent, null, empty or only white space
MissingOrBlank(v) ==
    \/ v.t \in {"undefined", "null"}
    \/ v.t = "string" /\ \A k \in 1..Len(v.s) : v.s[k] \in Whitespace

\* nine digits, then nothing or one of V, X in either case
NicWellFormed(v) ==
    /\ v.t = "string"
    /\ \/ Len(v.s) = 9
       \/ Len(v.s) = 10 /\ v.s[10] \in {"V", "X", "v", "x"}
    /\ \A k \in 1..9 : v.s[k] \in Digits

\* the messages that speak about one field
MsgsAbout ==
    [email |-> {"email is required", "Invalid email format"},
     password |-> {"password is required", "Password must be at least 8 characters long"},
     fullName |-> {"fullName is required"},
     mobileNumber |-> {"mobileNumber is required", "Invalid mobile number format"},
     nicNumber |-> {"nicNumber is required", "Invalid NIC number format"},
     role |-> {"role is required", "Role must be either Buyer or Seller"}]

MsgSet(errors) == { errors[k] : k \in 1..Len(errors) }

\* a request that is fine in every field but f, which is taken from data
Isolated(data, f) == [GoodFields(EmailA, Buyer) EXCEPT ![f] = data[f]]

C11_EveryResponseHasJsonAndCorsHeaders ==
    \A i \in Invocations :
        Done(i) =>
            /\ Status(i) \in {201, 400, 409, 500}
            /\ inv[i].response.headers.ContentType = "application/json"
            /\ inv[i].response.headers.AccessControlAllowOrigin = "*"

C11_Witness ==
    \E i \in Invocations : \E j \in Invocations :
        /\ Status(i) = 201
        /\ Status(j) \in {409, 500}
        /\ inv[i].response.headers = inv[j].response.headers
        /\ inv[i].response.headers.AccessControlAllowOrigin = "*"

\* the first n elements of a sequence
Prefix(s, n) == [k \in 1..n |-> s[k]]

\* the order of the steps in the try block: the upload is there exactly when
\* both image fields of the request are truthy
StepOrder(data) ==
    IF Truthy(data.nicPhotoBase64) /\ Truthy(data.nicPhotoContentType)
    THEN <<"adminCreateUser", "adminSetUserPassword", "s3.upload",
           "dynamodb.put", "adminAddUserToGroup">>
    ELSE <<"adminCreateUser", "adminSetUserPassword", "dynamodb.put", "adminAddUserToGroup">>

C18_GroupUsernameIsCreatedIdentity ==
    \A i \in Invocations : \A k \in 1..Len(inv[i].calls) :
        inv[i].calls[k].op = "adminAddUserToGroup" =>
            /\ inv[i].calls[1].op = "adminCreateUser" /\ inv[i].calls[1].ok
            /\ Resolve(inv[i].calls[k].arg.Username) # {}
            /\ Resolve(inv[i].calls[k].arg.Username) =
                   { u \in pool : u.Username = inv[i].data.email.s }

\* run i made the call op and it succeeded
Succeeded(i, op) ==
    \E k \in 1..Len(inv[i].calls) : inv[i].calls[k].op = op /\ inv[i].calls[k].ok

\* run i made the call op and it failed
Failed(i, op) ==
    \E k \in 1..Len(inv[i].calls) : inv[i].calls[k].op = op /\ ~inv[i].calls[k].ok

\* what the completed steps of every run stored is in the stores, and a run
\* whose set-password call failed has returned a failure and left its identity
\* with the temporary password only
C19_EffectsRemain ==
    \A i \in Invocations :
        /\ Succeeded(i, "adminCreateUser") =>
               \E u \in pool : u.Username = inv[i].data.email.s
        /\ Succeeded(i, "s3.upload") =>
               \E o \in bucket : o.Key.userId = inv[i].userId
        /\ Succeeded(i, "dynamodb.put") =>
               \E it \in table : it.userId = inv[i].userId
        /\ (Succeeded(i, "adminCreateUser") /\ Failed(i, "adminSetUserPassword")) =>
               /\ Done(i)
               /\ Status(i) \in {400, 409, 500}
               /\ \A u \in pool : u.Username = inv[i].data.email.s =>
                      u.UserStatus = "FORCE_CHANGE_PASSWORD"

\* C19: the handler never undoes a completed step: no step of any run removes
\* an identity record, a stored object or a profile record, so what a run
\* stored is still there after any later failure; when set-permanent-credential
\* fails after create-identity succeeded, the identity stays in the provider
\* with its temporary credential only and the run returns a failure.
C19_NoCompensation ==
    /\ []C19_EffectsRemain
    /\ [][/\ \A u \in pool : \E v \in pool' : v.Username = u.Username /\ v.sub = u.sub
          /\ \A o \in bucket : o \in bucket'
          /\ \A it \in table : it \in table'
          /\ \A m \in members : m \in members']_vars

C19_Witness ==
    \E i \in Invocations : \E j \in Invocations :
        /\ Succeeded(i, "adminCreateUser") /\ Failed(i, "adminSetUserPassword")
        /\ Status(i) = 500
        /\ \E u \in pool : u.Username = inv[i].data.email.s
                           /\ u.UserStatus = "FORCE_CHANGE_PASSWORD"
        /\ Succeeded(j, "s3.upload") /\ Failed(j, "dynamodb.put")
        /\ Done(j)
        /\ \E o \in bucket : o.Key.userId = inv[j].userId

\* the request of run i supplied an image: both image fields are truthy
ImageSupplied(i) ==
    Truthy(inv[i].data.nicPhotoBase64) /\ Truthy(inv[i].data.nicPhotoContentType)

\* the objects stored under a key that contains the userId of run i
ObjectsOf(i) == { o \in bucket : o.Key.userId = inv[i].userId }

\* C20: a run that returned 201 for a request with an image stored exactly
\* one object under a key containing its userId, and the locator in its
\* profile record is the locator of that object; a persisted profile has a
\* null locator only when its request supplied no image.
C20_LocatorNamesTheStoredObject ==
    /\ \A i \in Invocations :
           (Status(i) = 201 /\ ImageSupplied(i)) =>
               /\ Cardinality(ObjectsOf(i)) = 1
               /\ ItemsOf(i) # {}
               /\ \A it \in ItemsOf(i) : \A o \in ObjectsOf(i) :
                      /\ ~it.nicPhotoUrl.isNull
                      /\ it.nicPhotoUrl = [isNull |-> FALSE, Bucket |-> S3_BUCKET, Key |-> o.Key]
    /\ \A i \in Writers : \A it \in ItemsOf(i) :
           it.nicPhotoUrl.isNull <=> ~ImageSupplied(i)

C20_Witness ==
    \E i \in Invocations : \E j \in Invocations :
        /\ Status(i) = 201 /\ ImageSupplied(i)
        /\ \E o \in bucket : \E it \in table :
               /\ o.Key.userId = inv[i].userId
               /\ it.userId = inv[i].userId
               /\ it.nicPhotoUrl.Key = o.Key
        /\ j \in Writers /\ ~ImageSupplied(j)
        /\ \E it \in ItemsOf(j) : it.nicPhotoUrl = NullLocator

\* ------------------------------------------------------------------------
\* Properties of the catch block
\* ------------------------------------------------------------------------

\* C12: the failure response does not depend on the raw detail of the error:
\* two caught errors with the same code and different messages are answered
\* with the same status and the same body, and no body carries a raw message.
C12_FailureBodyIgnoresErrorDetail ==
    vOut.ran =>
        /\ vIn[1].code = vIn[2].code =>
               /\ vOut.result[1].statusCode = vOut.result[2].statusCode
               /\ vOut.result[1].body = vOut.result[2].body
        /\ \A k \in 1..2 :
               /\ vOut.result[k].statusCode \in {400, 409, 500}
               /\ vOut.result[k].body.message \notin RawMessages

C12_Witness ==
    /\ vOut.ran
    /\ vIn[1].code = "InvalidPasswordException"
    /\ vIn[2].code = "InvalidPasswordException"
    /\ vIn[1].message # vIn[2].message
    /\ vOut.result[1] = vOut.result[2]
    /\ vOut.result[1].statusCode = 400
    /\ vOut.result[1].body.message = "Password does not meet requirements"

\* ------------------------------------------------------------------------
\* Properties of the session controller
\* ------------------------------------------------------------------------

\* the calls made by the pages
Calls == 1..MaxOps

\* call k has resolved
Resolved(k) == ops[k].pc = "done"

\* call k resolves in this step
Resolves(k) == ops[k].pc \notin {"idle", "done"} /\ ops'[k].pc = "done"

\* C13: every call of signIn, signUp, signOut, confirmSignUp,
\* resendConfirmationCode, forgotPassword, resetPassword and updateUserProfile
\* ends, whatever the provider answered, in an outcome with success = true or
\* with success = false and a non-empty error message, which is also the
\* message the controller exposes at that moment; it ends in no other way.
C13_OutcomeIsSuccessOrMessage ==
    \A k \in Calls :
        /\ ops[k].kind \in Kinds \cup {"none"}
        /\ ops[k].pc \in {"idle", "call", "call2", "check1", "check2", "return", "done"}
        /\ Resolved(k) <=> ops[k].outcome.resolved
        /\ Resolved(k) =>
               \/ ops[k].outcome.success /\ ops[k].outcome.error = ""
               \/ ~ops[k].outcome.success /\ ops[k].outcome.error # ""

C13_Witness ==
    \E k \in Calls :
        /\ Resolved(k)
        /\ ops[k].kind = "updateUserProfile"
        /\ ~ops[k].outcome.success
        /\ ops[k].outcome.error = "An unexpected error occurred."
        /\ error = "An unexpected error occurred."

\* C14: in the step in which a signIn call resolves with success = true, the
\* session state is authenticated with the id of the user who signed in.
C14_SignInSuccessIsAuthenticated ==
    [][\A k \in Calls :
           (ops[k].kind = "signIn" /\ Resolves(k) /\ ops'[k].outcome.success) =>
               /\ user'.isAuthenticated
               /\ user'.id = ops[k].who]_vars

\* C15 as stated: a signIn, signOut or updateUserProfile call that resolved
\* with success = true ran the provider's current-session query before it
\* resolved.
C15_EverySuccessfulChangeQueries ==
    \A k \in Calls :
        (Resolved(k) /\ ops[k].outcome.success
           /\ ops[k].kind \in {"signIn", "signOut", "updateUserProfile"}) =>
            ops[k].checked # "none"

\* the session state a state check sets for what its query found
StateFor(found) == IF found = "anonymous" THEN AnonymousUser ELSE UserData(found)

\* signIn and updateUserProfile resolve with success only after their state
\* check; signOut resolves without one
C15_WhoQueries ==
    \A k \in Calls :
        (Resolved(k) /\ ops[k].outcome.success) =>
            /\ ops[k].kind \in {"signIn", "updateUserProfile"} => ops[k].checked # "none"
            /\ ops[k].kind = "signOut" => ops[k].checked = "none"

\* C15 (amended): a signIn or updateUserProfile call that resolves with
\* success = true has run the state check first, and the step that ends a
\* state check sets the session state to what its query found: the queried
\* user, authenticated, when both provider calls of the check resolved,
\* anonymous when one of them rejected. A successful signOut makes no query:
\* it sets the session state to anonymous itself.
C15_QueryThenStateExceptSignOut ==
    /\ []C15_WhoQueries
    /\ [][\A k \in Slots :
              (ops[k].checked = "none" /\ ops'[k].checked # "none") =>
                  /\ ops[k].pc \in {"check1", "check2"}
                  /\ user' = StateFor(ops'[k].checked)
                  /\ ops'[k].checked # "anonymous" => ops'[k].checked = ops[k].currentUser]_vars
    /\ [][\A k \in Calls :
              (ops[k].kind = "signOut" /\ Resolves(k) /\ ops'[k].outcome.success) =>
                  /\ user' = AnonymousUser
                  /\ session' = NoSession]_vars

C15_Witness ==
    \E k \in Calls :
        /\ Resolved(k)
        /\ ops[k].kind = "updateUserProfile"
        /\ ops[k].outcome.success
        /\ ops[k].checked = "bob"
        /\ user = UserData("bob")
        /\ session = "bob"

\* the mount effect has run and neither its state check nor any call is pending
NoneInFlight == mounted /\ \A k \in Slots : ops[k].pc \in {"idle", "done"}

\* C16: once no operation is in flight, user.isAuthenticated tells whether
\* the identity provider has a signed-in session.
C16_SettledStateMatchesProvider ==
    NoneInFlight => (user.isAuthenticated <=> session # NoSession)

\* C21: the session state goes from authenticated to anonymous only in the
\* step in which a signOut call resolves with success; no step of any other
\* operation takes an authenticated session to anonymous.
C21_OnlySignOutEndsTheSession ==
    [][(user.isAuthenticated /\ ~user'.isAuthenticated) =>
           \E k \in Calls :
               ops[k].kind = "signOut" /\ Resolves(k) /\ ops'[k].outcome.success]_vars

\* the state check of the mount effect has resolved
FirstCheckResolved == ops[0].pc = "done"

\* C22: the session starts uninitialized (user.isLoading true, not
\* authenticated); when the provider answers, the first state check resolves;
\* from then on the session is anonymous or authenticated with user.isLoading
\* false, whatever operations are called.
C22_UninitializedUntilFirstCheck ==
    /\ user.isLoading /\ ~user.isAuthenticated
    /\ <>FirstCheckResolved
    /\ [](FirstCheckResolved =>
              /\ ~user.isLoading
              /\ user \in {AnonymousUser} \cup { UserData(u) : u \in Users })

C22_Witness ==
    /\ FirstCheckResolved
    /\ user = UserData("alice")
    /\ \E k \in Calls : ops[k].kind = "signIn" /\ ops[k].pc = "check2"

\* slot k holds a pending state check of the mount effect or a pending call of
\* signIn, signUp, confirmSignUp or updateUserProfile
LoadingPending(k) ==
    /\ ops[k].pc \notin {"idle", "done"}
    /\ ops[k].kind \in {"checkAuthState", "signIn", "signUp", "confirmSignUp",
                        "updateUserProfile"}

\* C28 as stated: after the mount effect has run, isLoading is true exactly
\* while one of these operations is pending.
C28_LoadingExactlyWhilePending ==
    mounted => (isLoading <=> \E k \in Slots : LoadingPending(k))

\* one of these operations, or the state check inside it, finishes in this step
LoadingStepEnds(k) ==
    /\ LoadingPending(k)
    /\ \/ ops'[k].pc = "done"
       \/ ops[k].pc \in {"check1", "check2"} /\ ops'[k].pc = "return"

\* one of these operations, or the state check inside it, starts in this step
LoadingStepStarts(k) ==
    \/ ops[k].pc = "idle" /\ ops'[k].pc \in {"call", "check1"}
    \/ ops[k].pc \in {"call", "call2"} /\ ops'[k].pc = "check1"

\* C28 (amended): isLoading is set to true in each step in which one of
\* signIn, signUp, confirmSignUp, updateUserProfile or a state check starts,
\* and it is set to false in each step in which one of them, or the state
\* check inside signIn or updateUserProfile, finishes, whichever finishes
\* first; it changes in no other step. So once the mount effect has run,
\* isLoading is false whenever none of them is pending, but it can be false
\* while one is still pending.
C28_LoadingFollowsLastStartOrEnd ==
    /\ [](mounted /\ ~(\E k \in Slots : LoadingPending(k)) => ~isLoading)
    /\ [][\A k \in Slots :
              /\ (LoadingStepStarts(k) /\ LoadingPending(k)') => isLoading'
              /\ LoadingStepEnds(k) => ~isLoading']_vars
    /\ [][(isLoading' # isLoading) =>
              \E k \in Slots : LoadingStepEnds(k) \/ (LoadingStepStarts(k) /\ LoadingPending(k)')]_vars

C28_Witness ==
    /\ mounted
    /\ ~isLoading
    /\ ops[0].pc = "check2"
    /\ \E k \in Calls : Resolved(k) /\ ops[k].kind = "signUp"

\* call k resolves in this step with success = false
Fails(k) == Resolves(k) /\ ~ops'[k].outcome.success

\* C29: a call that fails has made no change to the session state: the step
\* in which it fails leaves user and the provider's session as they are and
\* sets the error field to the message it returns; it fails before any state
\* check of its own has ended, and the session state changes only in a step
\* that ends a state check or resolves a signOut with success. In particular
\* a failed signOut leaves an authenticated session authenticated.
C29_FailureLeavesSessionState ==
    /\ [][\A k \in Calls :
              Fails(k) =>
                  /\ user' = user
                  /\ session' = session
                  /\ error' = ops'[k].outcome.error
                  /\ ops[k].pc \in {"call", "call2"}
                  /\ ops[k].checked = "none"]_vars
    /\ [][(user' # user) =>
              \E k \in Slots :
                  \/ ops[k].pc \in {"check1", "check2"} /\ ops'[k].pc \in {"return", "done"}
                  \/ ops[k].kind = "signOut" /\ Resolves(k) /\ ops'[k].outcome.success]_vars

C29_Witness ==
    \E k \in Calls :
        /\ Resolved(k)
        /\ ops[k].kind = "signOut"
        /\ ~ops[k].outcome.success
        /\ error = ops[k].outcome.error
        /\ user = UserData("bob")
        /\ session = "bob"

\* ------------------------------------------------------------------------
\* Properties of getErrorMessage
\* ------------------------------------------------------------------------

\* the nine codes the lookup table lists
ListedCodes ==
    {"UserNotFoundException", "NotAuthorizedException", "UserNotConfirmedException",
     "UsernameExistsException", "InvalidPasswordException", "InvalidParameterException",
     "CodeMismatchException", "ExpiredCodeException", "LimitExceededException"}

\* C23: the message for a provider error depends on the error alone: each of
\* the nine listed codes gives its own fixed sentence whatever the raw
\* message; any other code, or no code, gives the raw message, or
\* "An unexpected error occurred." when there is none.
C23_MessageByCodeElseRaw ==
    /\ DOMAIN ErrorMessages = ListedCodes
    /\ \A c \in ListedCodes : \A d \in ListedCodes : ErrorMessages[c] = ErrorMessages[d] => c = d
    /\ \A c \in ListedCodes : ErrorMessages[c] \notin ProviderMessages
    /\ vOut.ran =>
           /\ vIn.code \in ListedCodes => vOut.result = ErrorMessages[vIn.code]
           /\ (vIn.code \notin ListedCodes /\ vIn.message # "") => vOut.result = vIn.message
           /\ (vIn.code \notin ListedCodes /\ vIn.message = "") =>
                  vOut.result = "An unexpected error occurred."

C23_Witness ==
    /\ vOut.ran
    /\ vIn.code = "NotAuthorizedException"
    /\ vIn.message = "Incorrect username or password."
    /\ vOut.result = "Incorrect password. Please try again."

\* ------------------------------------------------------------------------
\* Properties of the handler under concurrent runs
\* ------------------------------------------------------------------------

\* C26: however the runs interleave, no two profile records have the same
\* email, and every profile record has an identity record under its email in
\* the identity provider.
C26_OneProfilePerEmailWithIdentity ==
    /\ \A a \in table : \A b \in table : a.email = b.email => a = b
    /\ \A it \in table : \E u \in pool : u.Username = it.email.s /\ u.email = it.email

C26_Witness ==
    \E i \in Invocations : \E j \in Invocations :
        /\ i < j
        /\ inv[i].body = inv[j].body
        /\ inv[j].sawExisting /\ Done(j)
        /\ inv[i].pc = "addGroup"
        /\ Len(inv[i].calls) > Len(inv[j].calls)
        /\ Cardinality(table) = 1

\* ------------------------------------------------------------------------
\* Properties of the sign-up form
\* ------------------------------------------------------------------------

\* a submission that passed validateForm comes to its end in this step
SubmissionEnds == signUpForm.isSubmitting /\ ~signUpForm'.isSubmitting

\* the POST request leaves in this step
RequestLeaves == signUpForm.pc # "posting" /\ signUpForm'.pc = "posting"

\* C24: with no API base URL configured a registration attempt sends no request and
\* never navigates, and a submission that ends has put an error on the form: it does
\* not end silently
C24_NoRequestNoRouteAndErrorShown ==
    /\ [](signUpForm.apiBaseUrl = "" =>
              /\ ~signUpForm.request.sent
              /\ signUpForm.route = NotNavigated)
    /\ [][signUpForm.apiBaseUrl = "" /\ SubmissionEnds =>
              signUpForm'.errors # NoErrors]_vars

\* C25: the request leaves only for form data that passed validateForm and, a photo
\* being attached, only from the step in which the encoder resolved, carrying the
\* encoded image; the form is on the confirmation page only with an ok response to
\* that request and with the email of the request; a form showing validation errors
\* has sent no request
C25_ValidateEncodePostNavigate ==
    /\ [](/\ signUpForm.route # NotNavigated =>
                /\ signUpForm.request.sent
                /\ signUpForm.response = "ok"
                /\ signUpForm.route.path = "/auth/confirm"
                /\ Str(signUpForm.route.email) = signUpForm.request.payload.email
          /\ signUpForm.errors.fields # {} =>
                ~signUpForm.request.sent /\ signUpForm.pc = "idle"
          /\ signUpForm.request.sent =>
                signUpForm.request.url = "https://api.example.com/register")
    /\ [][/\ RequestLeaves =>
                /\ validateForm(signUpForm'.submitted)
                /\ signUpForm'.submitted.nicPhoto.present =>
                      /\ signUpForm.pc = "encoding"
                      /\ signUpForm'.request.payload.nicPhotoBase64 \in
                             {Str(signUpForm'.submitted.nicPhoto.content), Undefined}
                      /\ signUpForm'.request.payload.nicPhotoBase64 = Undefined =>
                             signUpForm'.submitted.nicPhoto.content = <<>>
          /\ signUpForm'.request.sent /\ signUpForm'.request # signUpForm.request =>
                RequestLeaves
          /\ signUpForm'.response # signUpForm.response /\ signUpForm'.response # "none" =>
                signUpForm.pc = "posting"]_vars

\* a photo was encoded, the request answered ok, and the form is on the confirmation page
C25_Witness ==
    /\ signUpForm.route = ConfirmRoute(EmailA)
    /\ signUpForm.request.payload.nicPhotoBase64 = Str(PngFile.content)
    /\ signUpForm.response = "ok"

\* C27: whenever validateForm returned true, validateRegistrationData returns isValid
\* for the payload the form sends
C27_ClientValidImpliesServerValid ==
    signUpForm.request.sent =>
        /\ ~validateRegistrationData(signUpForm.request.payload).threw
        /\ validateRegistrationData(signUpForm.request.payload).isValid

\* ------------------------------------------------------------------------
\* Properties of the forgot-password form
\* ------------------------------------------------------------------------

\* C30: the form is on its code step only with the latest successful forgotPassword
\* call made for the email it holds; every resetPassword call carries a non-empty
\* code, a new password of at least 8 characters and the email of the latest
\* successful forgotPassword call; the form is left for sign-in only after a
\* resetPassword call succeeded or by the back button
C30_ResetFollowsSendForTheSameEmail ==
    /\ forgotForm.step = "code" => forgotForm.sentTo = forgotForm.email
    /\ forgotForm.resetCall.made =>
           /\ forgotForm.resetCall.code # <<>>
           /\ Len(forgotForm.resetCall.newPassword) >= 8
           /\ forgotForm.resetCall.sentTo = forgotForm.resetCall.email
    /\ forgotForm.authMode = "signin" =>
           forgotForm.left = "back" \/ forgotForm.resetSucceeded

====
